---- MODULE Spec2Model ----
(***************************************************************************)
(* Model of aiops (Voltic-Software/aiops): target registry, multi-target   *)
(* and single-target renderer, diff/update planner, stack scanner, skill   *)
(* scaffolds, directive analysis and the init, sync, update, skills,       *)
(* doctor and evolve commands.                                             *)
(*                                                                         *)
(* Paths are sequences of path components.  An absolute path is the        *)
(* sequence of its components below "/", a relative path may start with    *)
(* ".." components, and the empty string is the empty sequence.            *)
(***************************************************************************)
EXTENDS Integers, Sequences, FiniteSets, TLC

VARIABLES
    projectDir,   \* the project directory of the run
    cfg,          \* the loaded ProjectConfig (Paths and the detected stack)
    fs,           \* the filesystem: path -> [data, readable], files only
    dirs,         \* directories that exist without a file below them
    ret,          \* what the last call returned
    fresh,        \* RenderAll succeeded with cfg and nothing changed since
    edits         \* number of changes made from outside the tool

vars == <<projectDir, cfg, fs, dirs, ret, fresh, edits>>

-----------------------------------------------------------------------------
(* Bounds                                                                  *)

MaxEdits == 1

-----------------------------------------------------------------------------
(* path/filepath                                                           *)

RECURSIVE CleanFrom(_, _)
CleanFrom(acc, rest) ==
    IF rest = <<>> THEN acc
    ELSE IF Head(rest) = ".."
         THEN CleanFrom(IF acc = <<>> THEN <<>> ELSE SubSeq(acc, 1, Len(acc) - 1), Tail(rest))
         ELSE CleanFrom(Append(acc, Head(rest)), Tail(rest))

\* filepath.Join of an absolute base with a relative path (the result is cleaned)
Join(base, rel) == CleanFrom(<<>>, base \o rel)

RECURSIVE CommonLen(_, _)
CommonLen(a, b) ==
    IF a = <<>> \/ b = <<>> \/ Head(a) # Head(b) THEN 0
    ELSE 1 + CommonLen(Tail(a), Tail(b))

RECURSIVE Ups(_)
Ups(n) == IF n = 0 THEN <<>> ELSE <<"..">> \o Ups(n - 1)

\* filepath.Rel of two absolute cleaned paths
Rel(base, targ) ==
    LET k == CommonLen(base, targ)
    IN  Ups(Len(base) - k) \o SubSeq(targ, k + 1, Len(targ))

\* strings.HasPrefix(p, c + "/") for a cleaned relative path p
HasPrefix(p, c) == Len(p) >= 2 /\ p[1] = c

\* strings.TrimPrefix(p, c + "/")
TrimPrefix(p, c) == IF HasPrefix(p, c) THEN Tail(p) ELSE p

\* p lies below directory d
Under(d, p) == Len(p) > Len(d) /\ SubSeq(p, 1, Len(d)) = d

-----------------------------------------------------------------------------
(* internal/target                                                         *)

Home == <<"home", "u">>

Windsurf ==
    [Name |-> "windsurf", DisplayName |-> "Windsurf (Cascade)",
     GlobalRules |-> <<".codeium", "windsurf", "memories", "global_rules.md">>,
     RepoRulesPath |-> <<".windsurf", "rules", "aiops.md">>,
     WorkflowsDir |-> <<".windsurf", "workflows">>,
     OrchestrDir |-> <<".windsurf", "orchestrator">>,
     SkillsDir |-> <<".windsurf", "skills">>]

Cursor ==
    [Name |-> "cursor", DisplayName |-> "Cursor",
     GlobalRules |-> <<>>,
     RepoRulesPath |-> <<".cursor", "rules", "aiops.mdc">>,
     WorkflowsDir |-> <<".cursor", "prompts">>,
     OrchestrDir |-> <<".cursor", "orchestrator">>,
     SkillsDir |-> <<".cursor", "skills">>]

Continue ==
    [Name |-> "continue", DisplayName |-> "Continue (VS Code)",
     GlobalRules |-> <<>>,
     RepoRulesPath |-> <<".continue", "rules", "aiops.md">>,
     WorkflowsDir |-> <<".continue", "prompts">>,
     OrchestrDir |-> <<".continue", "orchestrator">>,
     SkillsDir |-> <<".continue", "skills">>]

Copilot ==
    [Name |-> "copilot", DisplayName |-> "GitHub Copilot",
     GlobalRules |-> <<>>,
     RepoRulesPath |-> <<".github", "copilot-instructions.md">>,
     WorkflowsDir |-> <<>>,
     OrchestrDir |-> <<>>,
     SkillsDir |-> <<>>]

All == <<Windsurf, Cursor, Continue, Copilot>>

\* a slip: an empty mapping is joined to the project directory
ResolveWorkflowsDir_NoEmptyCheck(t, dir) == Join(dir, t.WorkflowsDir)

ResolveWorkflowsDir(t, dir) ==
    IF t.WorkflowsDir = <<>> THEN <<>> ELSE Join(dir, t.WorkflowsDir)

ResolveOrchestrDir(t, dir) ==
    IF t.OrchestrDir = <<>> THEN <<>> ELSE Join(dir, t.OrchestrDir)

\* The rules location of a target: the home-level location when the target
\* declares one (Windsurf memories), else the project-relative rules file.
ResolveRulesPath(t, dir) ==
    IF t.GlobalRules # <<>> THEN Join(Home, t.GlobalRules)
    ELSE IF t.RepoRulesPath # <<>> THEN Join(dir, t.RepoRulesPath)
    ELSE <<>>

\* os.Stat(d) finds a directory: one made as such, or the parent of a file
dirExists(fsv, dirsv, d) ==
    d \in dirsv \/ \E p \in DOMAIN fsv : Under(d, p)

\* a slip: Copilot is looked for in the home directory only
isTargetPresent_CopilotHomeOnly(fsv, dirsv, dir, t) ==
    CASE t.Name = "windsurf" ->
            \/ dirExists(fsv, dirsv, Join(Home, <<".codeium", "windsurf">>))
            \/ dirExists(fsv, dirsv, Join(dir, <<".windsurf">>))
      [] t.Name = "cursor" ->
            \/ dirExists(fsv, dirsv, Join(dir, <<".cursor">>))
            \/ dirExists(fsv, dirsv, Join(Home, <<".cursor">>))
      [] t.Name = "continue" ->
            \/ dirExists(fsv, dirsv, Join(dir, <<".continue">>))
            \/ dirExists(fsv, dirsv, Join(Home, <<".continue">>))
      [] t.Name = "copilot" ->
            dirExists(fsv, dirsv, Join(Home, <<".vscode">>))
      [] OTHER -> FALSE

isTargetPresent(fsv, dirsv, dir, t) ==
    CASE t.Name = "windsurf" ->
            \/ dirExists(fsv, dirsv, Join(Home, <<".codeium", "windsurf">>))
            \/ dirExists(fsv, dirsv, Join(dir, <<".windsurf">>))
      [] t.Name = "cursor" ->
            \/ dirExists(fsv, dirsv, Join(dir, <<".cursor">>))
            \/ dirExists(fsv, dirsv, Join(Home, <<".cursor">>))
      [] t.Name = "continue" ->
            \/ dirExists(fsv, dirsv, Join(dir, <<".continue">>))
            \/ dirExists(fsv, dirsv, Join(Home, <<".continue">>))
      [] t.Name = "copilot" ->
            \/ dirExists(fsv, dirsv, Join(dir, <<".github">>))
            \/ dirExists(fsv, dirsv, Join(Home, <<".vscode">>))
      [] OTHER -> FALSE

\* a slip: no fallback when nothing is detected
Detect_NoFallback(fsv, dirsv, dir) ==
    SelectSeq(All, LAMBDA t : isTargetPresent(fsv, dirsv, dir, t))

Detect(fsv, dirsv, dir) ==
    LET detected == SelectSeq(All, LAMBDA t : isTargetPresent(fsv, dirsv, dir, t))
    IN  IF Len(detected) = 0 THEN <<Windsurf, Cursor, Copilot>> ELSE detected

-----------------------------------------------------------------------------
(* internal/renderer                                                       *)

\* The embedded template corpus, in fs.WalkDir (lexical) order, relative to
\* "templates".
TemplateFS ==
    << <<"memories", "global_rules.md.tmpl">>,
       <<"multiagency", "go.mod.tmpl">>,
       <<"multiagency", "specs", "design.yaml">>,
       <<"soul", "soul.local.md">>,
       <<"windsurf", "orchestrator", "session_state.yaml">>,
       <<"windsurf", "workflows", "orchestrator.md">> >>

IsTmpl(name) == name \in {"global_rules.md.tmpl", "go.mod.tmpl"}

\* strings.TrimSuffix(name, ".tmpl")
TrimTmpl(name) ==
    CASE name = "global_rules.md.tmpl" -> "global_rules.md"
      [] name = "go.mod.tmpl" -> "go.mod"
      [] OTHER -> name

TrimSuffixTmpl(p) ==
    IF p = <<>> THEN p ELSE [p EXCEPT ![Len(p)] = TrimTmpl(p[Len(p)])]

\* fs.WalkDir(templateFS, dir): the files below dir, in walk order
WalkDir(dir) ==
    SelectSeq(TemplateFS, LAMBDA p : Under(dir, p))

NoData == [stamp |-> "", TargetName |-> "", OrchestrDir |-> <<>>]

NewTemplateData(c) == [stamp |-> c.Detected, TargetName |-> "", OrchestrDir |-> <<>>]

\* The bytes a template yields: a parametrized node is a function of the
\* node and the data, an opaque node is copied as it is.
renderFileContent(path, data) ==
    IF IsTmpl(path[Len(path)]) THEN [tpl |-> path, data |-> data]
    ELSE [tpl |-> path, data |-> NoData]

renderTemplate(path, data) == [tpl |-> path, data |-> data]

RECURSIVE MapOut(_, _, _, _, _)
MapOut(files, tdir, outDir, data, root) ==
    IF files = <<>> THEN <<>>
    ELSE LET path == Head(files)
             relPath == SubSeq(path, Len(tdir) + 1, Len(path))
             outPath == TrimSuffixTmpl(Join(outDir, relPath))
         IN  << [out |-> outPath, content |-> renderFileContent(path, data),
                 rel |-> Rel(root, outPath)] >>
             \o MapOut(Tail(files), tdir, outDir, data, root)

\* renderDir: one output per file of the template directory
renderDir(tdir, outDir, data, root) == MapOut(WalkDir(tdir), tdir, outDir, data, root)

renderForTarget(dir, c, t) ==
    LET data == [NewTemplateData(c) EXCEPT !.TargetName = t.Name,
                                           !.OrchestrDir = t.OrchestrDir]
        rulesOut == ResolveRulesPath(t, dir)
        workflowsDir == ResolveWorkflowsDir(t, dir)
        orchestrDir == ResolveOrchestrDir(t, dir)
        rules == IF rulesOut # <<>>
                 THEN << [out |-> rulesOut,
                          content |-> renderTemplate(<<"memories", "global_rules.md.tmpl">>, data),
                          rel |-> Rel(dir, rulesOut)] >>
                 ELSE <<>>
        wf == IF workflowsDir # <<>>
              THEN renderDir(<<"windsurf", "workflows">>, workflowsDir, data, dir)
              ELSE <<>>
        orc == IF orchestrDir # <<>>
               THEN renderDir(<<"windsurf", "orchestrator">>, orchestrDir, data, dir)
               ELSE <<>>
    IN  rules \o wf \o orc

renderShared(dir, c) ==
    LET data == [NewTemplateData(c) EXCEPT !.TargetName = "shared"]
        multiagencyDir == IF c.Multiagency = <<>> THEN <<"multiagency">> ELSE c.Multiagency
    IN  renderDir(<<"multiagency">>, Join(dir, multiagencyDir), data, dir)

RECURSIVE TargetsNamed(_, _)
TargetsNamed(name, ts) ==
    IF ts = <<>> THEN <<>>
    ELSE (IF Head(ts).Name = name THEN <<Head(ts)>> ELSE <<>>) \o TargetsNamed(name, Tail(ts))

RECURSIVE LookupTargets(_)
LookupTargets(names) ==
    IF names = <<>> THEN <<>>
    ELSE TargetsNamed(Head(names), All) \o LookupTargets(Tail(names))

resolveTargets(c) ==
    IF Len(c.Targets) > 0 /\ LookupTargets(c.Targets) # <<>>
    THEN LookupTargets(c.Targets)
    ELSE <<Windsurf>>

RECURSIVE RenderTargets(_, _, _)
RenderTargets(dir, c, ts) ==
    IF ts = <<>> THEN <<>>
    ELSE renderForTarget(dir, c, Head(ts)) \o RenderTargets(dir, c, Tail(ts))

\* a slip: the shared pass runs a second time
RenderOutputs_SharedTwice(dir, c) ==
    RenderTargets(dir, c, resolveTargets(c)) \o renderShared(dir, c) \o renderShared(dir, c)

\* The writes of one RenderAll(dir, c) call, in the order they happen
RenderOutputs(dir, c) == RenderTargets(dir, c, resolveTargets(c)) \o renderShared(dir, c)

\* writeFile: the content is replaced; an existing file keeps its mode
writeFile(fsv, p, content) ==
    IF p \in DOMAIN fsv THEN [fsv EXCEPT ![p].data = content]
    ELSE fsv @@ (p :> [data |-> content, readable |-> TRUE])

RECURSIVE WriteAll(_, _)
WriteAll(fsv, outs) ==
    IF outs = <<>> THEN fsv
    ELSE WriteAll(writeFile(fsv, Head(outs).out, Head(outs).content), Tail(outs))

RECURSIVE RelsOf(_)
RelsOf(outs) == IF outs = <<>> THEN <<>> ELSE <<Head(outs).rel>> \o RelsOf(Tail(outs))

\* a slip: a failed render takes its earlier writes back
RenderWrites_Rollback(fsv, outs, failAt) ==
    IF failAt = 0
    THEN [fs |-> WriteAll(fsv, outs), paths |-> RelsOf(outs), err |-> FALSE]
    ELSE [fs |-> fsv, paths |-> <<>>, err |-> TRUE]

\* RenderAll(dir, c) when the write of node failAt fails (0: no node fails):
\* the nodes before it are on disk, and the call returns nil and an error.
RenderWrites(fsv, outs, failAt) ==
    IF failAt = 0
    THEN [fs |-> WriteAll(fsv, outs), paths |-> RelsOf(outs), err |-> FALSE]
    ELSE [fs |-> WriteAll(fsv, SubSeq(outs, 1, failAt - 1)), paths |-> <<>>, err |-> TRUE]

RenderAll(fsv, dir, c, failAt) == RenderWrites(fsv, RenderOutputs(dir, c), failAt)

-----------------------------------------------------------------------------
(* internal/updater                                                        *)

TmpDir == <<"tmp", "aiops-update">>

NoHash == <<>>

\* sha256 of the content, first 8 bytes in hex: never empty, and taken to be
\* free of collisions on the contents of the model
Hash(content) == <<content>>

hashFile(fsv, p) ==
    IF p \in DOMAIN fsv /\ fsv[p].readable THEN Hash(fsv[p].data) ELSE NoHash

resolveRealPath(dir, c, relPath) ==
    LET windsurfDir == IF c.Windsurf = <<>> THEN <<".windsurf">> ELSE c.Windsurf
        multiagencyDir == IF c.Multiagency = <<>> THEN <<"multiagency">> ELSE c.Multiagency
        memDir == IF c.Memories = <<>>
                  THEN Join(Home, <<".codeium", "windsurf", "memories">>)
                  ELSE c.Memories
    IN  IF HasPrefix(relPath, ".windsurf") \/ HasPrefix(relPath, "windsurf")
        THEN Join(dir, windsurfDir \o TrimPrefix(TrimPrefix(relPath, ".windsurf"), "windsurf"))
        ELSE IF HasPrefix(relPath, "multiagency")
        THEN Join(dir, multiagencyDir \o TrimPrefix(relPath, "multiagency"))
        ELSE IF HasPrefix(relPath, "memories")
        THEN Join(memDir, TrimPrefix(relPath, "memories"))
        ELSE Join(dir, relPath)

EmptyPlan == [Diffs |-> <<>>, NewFiles |-> 0, Modified |-> 0, Unchanged |-> 0]

\* a slip: the comparison of the two hashes inverted
classify_Inverted(currentHash, newHash) ==
    IF currentHash = NoHash THEN "new"
    ELSE IF currentHash = newHash THEN "modified"
    ELSE "unchanged"

\* the status of a Diff from the two hashes
classify(currentHash, newHash) ==
    IF currentHash = NoHash THEN "new"
    ELSE IF currentHash # newHash THEN "modified"
    ELSE "unchanged"

\* a slip: an unchanged file is not counted
AddDiff_UnchangedNotCounted(plan, fsv, dir, c, relPath) ==
    LET tmpPath == Join(TmpDir, relPath)
        realPath == resolveRealPath(dir, c, relPath)
        displayPath == IF HasPrefix(relPath, "..")
                       THEN [abs |-> TRUE, p |-> realPath]
                       ELSE [abs |-> FALSE, p |-> relPath]
        newHash == hashFile(fsv, tmpPath)
        currentHash == hashFile(fsv, realPath)
        status == classify(currentHash, newHash)
        diff == [Path |-> displayPath, Status |-> status,
                 CurrentHash |-> currentHash, NewHash |-> newHash, Real |-> realPath]
    IN  [Diffs |-> Append(plan.Diffs, diff),
         NewFiles |-> plan.NewFiles + (IF status = "new" THEN 1 ELSE 0),
         Modified |-> plan.Modified + (IF status = "modified" THEN 1 ELSE 0),
         Unchanged |-> plan.Unchanged]

\* One iteration of the loop of ComputePlan.  Real is the path whose hash was
\* taken as the current one; it is kept beside the Diff for the properties.
AddDiff(plan, fsv, dir, c, relPath) ==
    LET tmpPath == Join(TmpDir, relPath)
        realPath == resolveRealPath(dir, c, relPath)
        displayPath == IF HasPrefix(relPath, "..")
                       THEN [abs |-> TRUE, p |-> realPath]
                       ELSE [abs |-> FALSE, p |-> relPath]
        newHash == hashFile(fsv, tmpPath)
        currentHash == hashFile(fsv, realPath)
        status == classify(currentHash, newHash)
        diff == [Path |-> displayPath, Status |-> status,
                 CurrentHash |-> currentHash, NewHash |-> newHash, Real |-> realPath]
    IN  [Diffs |-> Append(plan.Diffs, diff),
         NewFiles |-> plan.NewFiles + (IF status = "new" THEN 1 ELSE 0),
         Modified |-> plan.Modified + (IF status = "modified" THEN 1 ELSE 0),
         Unchanged |-> plan.Unchanged + (IF status = "unchanged" THEN 1 ELSE 0)]

RECURSIVE BuildPlan(_, _, _, _, _)
BuildPlan(plan, fsv, dir, c, rendered) ==
    IF rendered = <<>> THEN plan
    ELSE BuildPlan(AddDiff(plan, fsv, dir, c, Head(rendered)), fsv, dir, c, Tail(rendered))

\* a slip: the scratch directory is left behind
RemoveAll_Keep(fsv, d) == fsv

\* os.RemoveAll(d) on the files
RemoveAll(fsv, d) ==
    [p \in {q \in DOMAIN fsv : ~Under(d, q)} |-> fsv[p]]

\* the configuration the scratch render runs with
TmpCfg(c) == [c EXCEPT !.Memories = Join(TmpDir, <<"memories">>)]

\* ComputePlan(dir, c): mkOK says whether os.MkdirTemp succeeded, failAt which
\* node of the scratch render failed (0: none); outs are the writes of
\* RenderAll(tmpDir, &tmpCfg)
ComputePlanWith(fsv, dirsv, dir, c, outs, mkOK, failAt) ==
    IF ~mkOK
    THEN [fs |-> fsv, dirs |-> dirsv, plan |-> EmptyPlan, err |-> TRUE, made |-> FALSE]
    ELSE LET r == RenderWrites(fsv, outs, failAt)
         IN  IF r.err
             THEN [fs |-> RemoveAll(r.fs, TmpDir), dirs |-> dirsv \ {TmpDir},
                   plan |-> EmptyPlan, err |-> TRUE, made |-> TRUE]
             ELSE [fs |-> RemoveAll(r.fs, TmpDir), dirs |-> dirsv \ {TmpDir},
                   plan |-> BuildPlan(EmptyPlan, r.fs, dir, c, r.paths),
                   err |-> FALSE, made |-> TRUE]

ComputePlan(fsv, dirsv, dir, c, mkOK, failAt) ==
    ComputePlanWith(fsv, dirsv, dir, c, RenderOutputs(TmpDir, TmpCfg(c)), mkOK, failAt)

RECURSIVE DiffPaths(_)
DiffPaths(diffs) == IF diffs = <<>> THEN <<>> ELSE <<Head(diffs).Path>> \o DiffPaths(Tail(diffs))

\* a slip: includeUnchanged is not looked at
ApplyWith_AllPaths(fsv, outs, plan, includeUnchanged, failAt) ==
    LET r == RenderWrites(fsv, outs, failAt)
    IN  IF r.err THEN [fs |-> r.fs, paths |-> <<>>, err |-> TRUE]
        ELSE [fs |-> r.fs, paths |-> DiffPaths(plan.Diffs), err |-> FALSE]

\* Apply(dir, c, plan, includeUnchanged); outs are the writes of
\* RenderAll(dir, c), failAt the node of that render that fails (0: none)
ApplyWith(fsv, outs, plan, includeUnchanged, failAt) ==
    LET r == RenderWrites(fsv, outs, failAt)
        applied == DiffPaths(SelectSeq(plan.Diffs,
                       LAMBDA d : ~(d.Status = "unchanged" /\ ~includeUnchanged)))
    IN  IF r.err THEN [fs |-> r.fs, paths |-> <<>>, err |-> TRUE]
        ELSE [fs |-> r.fs, paths |-> applied, err |-> FALSE]

Apply(fsv, dir, c, plan, includeUnchanged, failAt) ==
    ApplyWith(fsv, RenderOutputs(dir, c), plan, includeUnchanged, failAt)

-----------------------------------------------------------------------------
(* The renderer and the planner run against a project                      *)

ProjectDirs == {<<"srv", "app">>, <<"home", "u", "app">>, Home}

TargetLists == {<<>>, <<"cursor", "copilot">>, <<"windsurf", "copilot">>}

\* Paths of .aiops.yaml: the defaults, and both directories moved
PathSettings ==
    {[Windsurf |-> <<".windsurf">>, Multiagency |-> <<"multiagency">>],
     [Windsurf |-> <<".ws">>, Multiagency |-> <<"tools", "agents">>]}

Stamps == {"v1", "v2"}

\* content written by somebody else than the renderer
Stale == [tpl |-> <<"user">>, data |-> NoData]

\* failAt is kept beside the result of a render for the properties, and so
\* are the answers a command got: yes and no say that a prompt was answered
\* so, shown that the plan was printed, rendered that RenderAll was called on
\* the project
NoRet == [op |-> "none", err |-> FALSE, paths |-> <<>>, plan |-> EmptyPlan, made |-> FALSE,
          targets |-> <<>>, failAt |-> 0, includeUnchanged |-> FALSE,
          yes |-> FALSE, no |-> FALSE, shown |-> FALSE, rendered |-> FALSE]

EmptyFS == [p \in {} |-> [data |-> Stale, readable |-> TRUE]]

\* the paths a render of the project writes and the paths the planner reads
OutPaths(outs) == {outs[i].out : i \in DOMAIN outs}

RealOutputs == OutPaths(RenderOutputs(projectDir, cfg))

PlannedPaths ==
    LET outs == RenderOutputs(TmpDir, TmpCfg(cfg))
    IN  {resolveRealPath(projectDir, cfg, outs[i].rel) : i \in DOMAIN outs}

Init ==
    /\ projectDir \in ProjectDirs
    /\ \E ts \in TargetLists, ps \in PathSettings :
          cfg = [Targets |-> ts, Windsurf |-> ps.Windsurf, Multiagency |-> ps.Multiagency,
                 Memories |-> <<>>, Detected |-> "v1"]
    /\ fs = EmptyFS
    /\ dirs = {}
    /\ ret = NoRet
    /\ fresh = FALSE
    /\ edits = 0

\* renderer.RenderAll(projectDir, cfg), as init, sync and update call it
RenderAllStep ==
    \E outs \in {RenderOutputs(projectDir, cfg)} :
    \E failAt \in 0 .. Len(outs) :
    \E r \in {RenderWrites(fs, outs, failAt)} :
            /\ fs' = r.fs
            /\ ret' = [NoRet EXCEPT !.op = "RenderAll", !.err = r.err, !.paths = r.paths,
                                    !.failAt = failAt]
            /\ fresh' = ~r.err
            /\ UNCHANGED <<projectDir, cfg, dirs, edits>>

\* updater.ComputePlan(projectDir, cfg)
ComputePlanStep ==
    \E outs \in {RenderOutputs(TmpDir, TmpCfg(cfg))} :
    \E mkOK \in BOOLEAN, failAt \in 0 .. Len(outs) :
        /\ mkOK \/ failAt = 0
        /\ \E r \in {ComputePlanWith(fs, dirs, projectDir, cfg, outs, mkOK, failAt)} :
            /\ fs' = r.fs
            /\ dirs' = r.dirs
            /\ ret' = [NoRet EXCEPT !.op = "ComputePlan", !.err = r.err,
                                    !.plan = r.plan, !.made = r.made]
            /\ UNCHANGED <<projectDir, cfg, fresh, edits>>

\* somebody else writes a file the tool renders or reads
ExternalWrite ==
    \E p \in RealOutputs \cup PlannedPaths, rd \in BOOLEAN :
        /\ edits < MaxEdits
        /\ fs' = [q \in DOMAIN fs \cup {p} |->
                    IF q = p THEN [data |-> Stale, readable |-> rd] ELSE fs[q]]
        /\ edits' = edits + 1
        /\ fresh' = FALSE
        /\ ret' = NoRet
        /\ UNCHANGED <<projectDir, cfg, dirs>>

\* somebody else removes a file
ExternalRemove ==
    \E p \in DOMAIN fs :
        /\ edits < MaxEdits
        /\ fs' = [q \in DOMAIN fs \ {p} |-> fs[q]]
        /\ edits' = edits + 1
        /\ fresh' = FALSE
        /\ ret' = NoRet
        /\ UNCHANGED <<projectDir, cfg, dirs>>

\* a re-scan changes the detected stack the templates are rendered with
ChangeCfg ==
    \E st \in Stamps \ {cfg.Detected} :
        /\ edits < MaxEdits
        /\ cfg' = [cfg EXCEPT !.Detected = st]
        /\ edits' = edits + 1
        /\ fresh' = FALSE
        /\ ret' = NoRet
        /\ UNCHANGED <<projectDir, fs, dirs>>

Next ==
    \/ RenderAllStep
    \/ ComputePlanStep
    \/ ExternalWrite
    \/ ExternalRemove
    \/ ChangeCfg

Spec == Init /\ [][Next]_vars

-----------------------------------------------------------------------------
(* Properties of the planner                                               *)

Planned == ret.op = "ComputePlan" /\ ~ret.err

AllUnchanged(plan) ==
    /\ plan.NewFiles = 0
    /\ plan.Modified = 0
    /\ \A i \in DOMAIN plan.Diffs : plan.Diffs[i].Status = "unchanged"

\* C1: a plan computed after a successful RenderAll with the same cfg, with no
\* change in between, classifies every entry as unchanged.
C1_RenderThenPlanUnchanged ==
    (Planned /\ fresh) => AllUnchanged(ret.plan)

\* the files below the project directory
ProjectFiles(fsv) == [p \in {q \in DOMAIN fsv : Under(projectDir, q)} |-> fsv[p]]

\* C2: a ComputePlan call, succeeding or failing, leaves the set of files
\* below the project directory and their contents as they were.
C2_PlanLeavesProject ==
    [][ret'.op = "ComputePlan" => ProjectFiles(fs') = ProjectFiles(fs)]_vars

C4_EmptyProjectAllNew ==
    (Planned /\ \A p \in DOMAIN fs : ~Under(projectDir, p)) =>
        /\ ret.plan.NewFiles = Len(ret.plan.Diffs)
        /\ ret.plan.Modified = 0
        /\ ret.plan.Unchanged = 0

\* the i-th write of outs is not followed by a write to the same path among
\* the first n writes
LastWrite(outs, i, n) == \A j \in i + 1 .. n : outs[j].out # outs[i].out

\* C12: a RenderAll that fails at a node returns an error and no paths, and
\* every file written before that node holds its newly rendered content.
C12_FailedRenderKeepsWrites ==
    [][(ret'.op = "RenderAll" /\ ret'.err) =>
          /\ ret'.paths = <<>>
          /\ LET outs == RenderOutputs(projectDir, cfg)
                 n == ret'.failAt - 1
             IN  \A i \in 1 .. n :
                    LastWrite(outs, i, n) =>
                        /\ outs[i].out \in DOMAIN fs'
                        /\ fs'[outs[i].out].data = outs[i].content]_vars

\* a render has failed after its first write, and that write is on disk
C12_Witness ==
    /\ ret.op = "RenderAll"
    /\ ret.err
    /\ ret.failAt >= 2
    /\ RenderOutputs(projectDir, cfg)[1].out \in DOMAIN fs

Rendered == ret.op = "RenderAll" /\ ~ret.err

\* how often x occurs in seq
Count(seq, x) == Cardinality({i \in DOMAIN seq : seq[i] = x})

\* the targets a render of the configuration is for
ActiveTargets == resolveTargets(cfg)

\* the multiagency files of the project
SharedFiles ==
    LET m == IF cfg.Multiagency = <<>> THEN <<"multiagency">> ELSE cfg.Multiagency
    IN  {Join(projectDir, m \o <<"go.mod">>), Join(projectDir, m \o <<"specs", "design.yaml">>)}

\* the files of target t: its rules file, and a workflow and an orchestrator
\* file where t maps a directory for them
TargetFiles(t) ==
    {ResolveRulesPath(t, projectDir)}
    \cup (IF t.WorkflowsDir = <<>> THEN {}
          ELSE {Join(projectDir, t.WorkflowsDir \o <<"orchestrator.md">>)})
    \cup (IF t.OrchestrDir = <<>> THEN {}
          ELSE {Join(projectDir, t.OrchestrDir \o <<"session_state.yaml">>)})

\* C13: a successful RenderAll lists every multiagency file once, however
\* many targets are active, and every file of every active target once.
C13_SharedOnce ==
    Rendered =>
        /\ \A p \in SharedFiles : Count(ret.paths, Rel(projectDir, p)) = 1
        /\ \A k \in DOMAIN ActiveTargets :
              \A p \in TargetFiles(ActiveTargets[k]) : Count(ret.paths, Rel(projectDir, p)) = 1
        /\ Len(ret.paths) = Cardinality(SharedFiles \cup
                                UNION {TargetFiles(ActiveTargets[k]) : k \in DOMAIN ActiveTargets})

\* a render for two targets has succeeded
C13_Witness == Rendered /\ Len(ActiveTargets) = 2 /\ Len(ret.paths) > 0

\* the files a step has created or rewritten with other bytes
Touched(old, new) == {p \in DOMAIN new : p \notin DOMAIN old \/ new[p] # old[p]}

\* C14: a target without a workflows or orchestrator mapping gets no workflow
\* or orchestrator file and the render succeeds all the same: a successful
\* RenderAll leaves exactly the rules files, the mapped workflow and
\* orchestrator files of the active targets and the shared files, each with
\* the rendered content of its target.
C14_AbsentMappingSkipped ==
    [][(ret'.op = "RenderAll" /\ ~ret'.err) =>
          LET expected == SharedFiles \cup
                          UNION {TargetFiles(ActiveTargets[k]) : k \in DOMAIN ActiveTargets}
          IN  /\ Touched(fs, fs') \subseteq expected
              /\ expected \subseteq DOMAIN fs'
              /\ \A k \in DOMAIN ActiveTargets :
                    LET t == ActiveTargets[k]
                    IN  fs'[ResolveRulesPath(t, projectDir)].data.data.TargetName = t.Name]_vars

\* a render with Copilot among its targets has succeeded and its rules file
\* is on disk
C14_Witness ==
    /\ Rendered
    /\ \E k \in DOMAIN ActiveTargets : ActiveTargets[k].Name = "copilot"
    /\ Join(projectDir, <<".github", "copilot-instructions.md">>) \in DOMAIN fs

\* C15: when ComputePlan returns after it has made its scratch directory,
\* with a plan or with a render error, the scratch directory and every file
\* below it are gone.
C15_ScratchRemoved ==
    (ret.op = "ComputePlan" /\ ret.made) =>
        /\ TmpDir \notin dirs
        /\ \A p \in DOMAIN fs : ~Under(TmpDir, p)

\* ComputePlan has returned a render error after it made the scratch directory
C15_Witness == ret.op = "ComputePlan" /\ ret.made /\ ret.err

-----------------------------------------------------------------------------
(* Target detection on its own                                             *)

\* the directories the presence probes look at
MarkerDirs(dir) ==
    {Join(Home, <<".codeium", "windsurf">>), Join(dir, <<".windsurf">>),
     Join(dir, <<".cursor">>), Join(Home, <<".cursor">>),
     Join(dir, <<".continue">>), Join(Home, <<".continue">>),
     Join(dir, <<".github">>), Join(Home, <<".vscode">>)}

InitTarget ==
    /\ projectDir \in ProjectDirs
    /\ cfg = [Targets |-> <<>>, Windsurf |-> <<".windsurf">>, Multiagency |-> <<"multiagency">>,
              Memories |-> <<>>, Detected |-> "v1"]
    /\ fs = EmptyFS
    /\ dirs \in SUBSET MarkerDirs(projectDir)
    /\ ret = NoRet
    /\ fresh = FALSE
    /\ edits = 0

\* target.Detect(projectDir)
DetectStep ==
    /\ ret' = [NoRet EXCEPT !.op = "Detect", !.targets = Detect(fs, dirs, projectDir)]
    /\ UNCHANGED <<projectDir, cfg, fs, dirs, fresh, edits>>

NextTarget == DetectStep

SpecTarget == InitTarget /\ [][NextTarget]_vars

RECURSIVE NamesOf(_)
NamesOf(ts) == IF ts = <<>> THEN <<>> ELSE <<Head(ts).Name>> \o NamesOf(Tail(ts))

NoMarkerPresent ==
    \A d \in MarkerDirs(projectDir) : d \notin dirs /\ \A p \in DOMAIN fs : ~Under(d, p)

-----------------------------------------------------------------------------
(* internal/scanner                                                        *)
(*                                                                         *)
(* A scanned file is [data |-> [module, subs, mcp], readable]: module is   *)
(* the text after "module " on the first such line ("" when no line has    *)
(* it), subs the substrings the tests of the scanner look for that the     *)
(* text contains, mcp the JSON document ("invalid" when the text is not    *)
(* JSON, else the mcpServers object as a function from names to entries).  *)
(* Directories are always readable.                                        *)

\* file names in the byte order in which WalkDir and ReadDir list them
NameOrder ==
    <<".codeium", ".continue", ".cursor", ".git", ".github", ".gitlab-ci.yml", ".vscode",
      ".windsurf", "Dockerfile", "api", "app", "build", "config.json", "dist",
      "docker-compose.yaml", "docker-compose.yml", "domain", "eventsrc", "go.mod", "go.sum",
      "home", "internal", "lerna.json", "lib", "main_test.go", "mcp-server", "mcp.json",
      "mcp_config.json", "node_modules", "package.json", "pkg", "pnpm-workspace.yaml",
      "requirements.txt", "s01.go", "s02.go", "s03.go", "s04.go", "s05.go", "s06.go",
      "s07.go", "s08.go", "s09.go", "s10.go", "s11.go", "s12.go", "srv", "svc", "u",
      "vendor", "web", "windsurf", "workflows", "x", "y", "z">>

Rank(n) == CHOOSE i \in DOMAIN NameOrder : NameOrder[i] = n

\* strings.HasPrefix(name, ".")
HasDotPrefix(n) ==
    n \in {".codeium", ".continue", ".cursor", ".git", ".github", ".gitlab-ci.yml",
           ".vscode", ".windsurf"}

\* a precedes b in the lexical walk: a directory before its entries,
\* entries by name
RECURSIVE PathLess(_, _)
PathLess(a, b) ==
    IF a = <<>> THEN b # <<>>
    ELSE IF b = <<>> THEN FALSE
    ELSE IF Head(a) = Head(b) THEN PathLess(Tail(a), Tail(b))
    ELSE Rank(Head(a)) < Rank(Head(b))

RECURSIVE SortPaths(_)
SortPaths(S) ==
    IF S = {} THEN <<>>
    ELSE LET m == CHOOSE x \in S : \A y \in S \ {x} : PathLess(x, y)
         IN  <<m>> \o SortPaths(S \ {m})

\* d.Name()
Base(p) == p[Len(p)]

\* filepath.Dir
Dir(p) == SubSeq(p, 1, Len(p) - 1)

\* filepath.Rel(dir, p) as the scanner prints it: "." for the directory itself
RelDot(dir, p) == IF p = dir THEN <<".">> ELSE Rel(dir, p)

\* strings.Count(rel, "/") of filepath.Rel(dir, p)
Seps(dir, p) == IF p = dir THEN 0 ELSE Len(p) - Len(dir) - 1

\* os.Stat(p) succeeds
fileExists(fsv, dirsv, p) == p \in DOMAIN fsv \/ p \in dirsv

\* dirExists(base, sub) of the scanner
dirExistsIn(dirsv, base, sub) == Join(base, sub) \in dirsv

\* os.ReadFile(p) succeeds
CanRead(fsv, p) == p \in DOMAIN fsv /\ fsv[p].readable

\* The entries filepath.WalkDir(dir, fn) hands to fn without an error when fn
\* answers SkipDir for the directories named in skip and for those more than
\* maxSeps separators below dir.  A missing dir is handed over with an error
\* only.
Walked(fsv, dirsv, dir, skip, maxSeps) ==
    IF dir \notin dirsv THEN {}
    ELSE {p \in DOMAIN fsv \cup dirsv :
            /\ p = dir \/ Under(dir, p)
            /\ \A k \in Len(dir) .. Len(p) - 1 :
                  /\ p[k] \notin skip
                  /\ Seps(dir, SubSeq(p, 1, k)) <= maxSeps}

SkipDeps == {"node_modules", ".git", "vendor"}

findFiles(fsv, dirsv, dir, name, maxDepth) ==
    SortPaths({p \in Walked(fsv, dirsv, dir, SkipDeps, maxDepth) :
                 /\ Seps(dir, p) <= maxDepth
                 /\ ~(p \in dirsv /\ Base(p) \in SkipDeps)
                 /\ Base(p) = name})

containsInFile(fsv, dir, filename, substr) ==
    LET p == Join(dir, <<filename>>)
    IN  CanRead(fsv, p) /\ substr \in fsv[p].data.subs

containsInAnyFile(fsv, dir, filenames, substr) ==
    \E i \in DOMAIN filenames : containsInFile(fsv, dir, filenames[i], substr)

hasLang(langs, name) == \E i \in DOMAIN langs : langs[i].Name = name

contains(slice, item) == \E i \in DOMAIN slice : slice[i] = item

appendUnique(slice, item) == IF contains(slice, item) THEN slice ELSE Append(slice, item)

appendFrameworkUnique(slice, fw) ==
    IF \E i \in DOMAIN slice : slice[i].Name = fw.Name THEN slice ELSE Append(slice, fw)

RECURSIVE dedupe(_)
dedupe(items) ==
    IF items = <<>> THEN <<>>
    ELSE LET r == dedupe(SubSeq(items, 1, Len(items) - 1))
         IN  appendUnique(r, items[Len(items)])

\* the indicator table of detectLanguages
checks ==
    <<[indicator |-> "go.mod", name |-> "go", confidence |-> "high"],
      [indicator |-> "go.sum", name |-> "go", confidence |-> "high"],
      [indicator |-> "package.json", name |-> "typescript", confidence |-> "medium"],
      [indicator |-> "tsconfig.json", name |-> "typescript", confidence |-> "high"],
      [indicator |-> "requirements.txt", name |-> "python", confidence |-> "high"],
      [indicator |-> "pyproject.toml", name |-> "python", confidence |-> "high"],
      [indicator |-> "Cargo.toml", name |-> "rust", confidence |-> "high"],
      [indicator |-> "pom.xml", name |-> "java", confidence |-> "high"],
      [indicator |-> "build.gradle", name |-> "java", confidence |-> "high"],
      [indicator |-> "Gemfile", name |-> "ruby", confidence |-> "high"],
      [indicator |-> "mix.exs", name |-> "elixir", confidence |-> "high"]>>

\* a slip: the seen map is not consulted
appendLanguage_NoSeen(langs, c, entryDir) ==
    Append(langs, [Name |-> c.name, Confidence |-> c.confidence, EntryDir |-> entryDir])

\* the body of both indicator loops: seen[c.name] guards the append
appendLanguage(langs, c, entryDir) ==
    IF hasLang(langs, c.name) THEN langs
    ELSE Append(langs, [Name |-> c.name, Confidence |-> c.confidence, EntryDir |-> entryDir])

\* for _, c := range checks, over the directory d
RECURSIVE checkDir(_, _, _, _, _, _)
checkDir(langs, fsv, dirsv, d, entryDir, cs) ==
    IF cs = <<>> THEN langs
    ELSE LET c == Head(cs)
             l == IF fileExists(fsv, dirsv, Join(d, <<c.indicator>>))
                  THEN appendLanguage(langs, c, entryDir) ELSE langs
         IN  checkDir(l, fsv, dirsv, d, entryDir, Tail(cs))

\* os.ReadDir(d): the entries of d that are directories, sorted by name
SubDirs(dirsv, d) ==
    SortPaths({p \in dirsv : Len(p) = Len(d) + 1 /\ Under(d, p)})

RECURSIVE checkSubDirs(_, _, _, _)
checkSubDirs(langs, fsv, dirsv, subs) ==
    IF subs = <<>> THEN langs
    ELSE LET s == Head(subs)
             n == Base(s)
             l == IF HasDotPrefix(n) \/ n = "node_modules" \/ n = "vendor" THEN langs
                  ELSE checkDir(langs, fsv, dirsv, s, n, checks)
         IN  checkSubDirs(l, fsv, dirsv, Tail(subs))

detectLanguages(fsv, dirsv, dir) ==
    checkSubDirs(checkDir(<<>>, fsv, dirsv, dir, "", checks), fsv, dirsv, SubDirs(dirsv, dir))

\* the go.mod tests of detectFrameworks: substrings looked for, framework
GoSignals ==
    <<[subs |-> {"eventsrc"}, name |-> "eventsrc"],
      [subs |-> {"temporal"}, name |-> "temporal"],
      [subs |-> {"gin-gonic"}, name |-> "gin"],
      [subs |-> {"go-chi", "chi/v5"}, name |-> "chi"],
      [subs |-> {"fiber"}, name |-> "fiber"],
      [subs |-> {"eclipse/paho"}, name |-> "mqtt"]>>

Fw(name, lang, d) == [Name |-> name, Language |-> lang, Confidence |-> "high", Dir |-> d]

RECURSIVE goSignalsOf(_, _, _, _, _)
goSignalsOf(frameworks, fsv, modDir, relDir, sigs) ==
    IF sigs = <<>> THEN frameworks
    ELSE LET s == Head(sigs)
             f == IF \E sub \in s.subs : containsInFile(fsv, modDir, "go.mod", sub)
                  THEN appendFrameworkUnique(frameworks, Fw(s.name, "go", relDir))
                  ELSE frameworks
         IN  goSignalsOf(f, fsv, modDir, relDir, Tail(sigs))

RECURSIVE goFrameworks(_, _, _, _)
goFrameworks(frameworks, fsv, dir, modPaths) ==
    IF modPaths = <<>> THEN frameworks
    ELSE LET modDir == Dir(Head(modPaths))
         IN  goFrameworks(goSignalsOf(frameworks, fsv, modDir, RelDot(dir, modDir), GoSignals),
                          fsv, dir, Tail(modPaths))

\* the package.json tests of one manifest, in the order of the code
pkgFrameworks(fsv, pkgDir, relDir) ==
    LET has(s) == containsInFile(fsv, pkgDir, "package.json", s)
        one(c, n) == IF c THEN <<Fw(n, "typescript", relDir)>> ELSE <<>>
    IN  one(has("\"next\""), "nextjs")
        \o one(has("\"react\"") /\ ~has("\"next\""), "react")
        \o one(has("\"vue\""), "vue")
        \o one(has("\"svelte\""), "svelte")
        \o one(has("\"angular\"") \/ has("\"@angular/core\""), "angular")
        \o one(has("\"tailwindcss\""), "tailwindcss")

RECURSIVE tsFrameworks(_, _, _, _)
tsFrameworks(frameworks, fsv, dir, pkgPaths) ==
    IF pkgPaths = <<>> THEN frameworks
    ELSE LET pkgDir == Dir(Head(pkgPaths))
         IN  tsFrameworks(frameworks \o pkgFrameworks(fsv, pkgDir, RelDot(dir, pkgDir)),
                          fsv, dir, Tail(pkgPaths))

pyFrameworks(fsv, dir) ==
    LET has(s) == containsInAnyFile(fsv, dir, <<"requirements.txt", "pyproject.toml">>, s)
        one(n) == IF has(n) THEN <<[Name |-> n, Language |-> "python", Confidence |-> "high",
                                    Dir |-> <<>>]>> ELSE <<>>
    IN  one("django") \o one("fastapi") \o one("flask")

detectFrameworks(fsv, dirsv, dir, langs) ==
    LET g == IF hasLang(langs, "go")
             THEN goFrameworks(<<>>, fsv, dir, findFiles(fsv, dirsv, dir, "go.mod", 2))
             ELSE <<>>
        t == IF hasLang(langs, "typescript") \/ hasLang(langs, "javascript")
             THEN tsFrameworks(g, fsv, dir, findFiles(fsv, dirsv, dir, "package.json", 2))
             ELSE g
    IN  IF hasLang(langs, "python") THEN t \o pyFrameworks(fsv, dir) ELSE t

NoBuild == [Commands |-> <<>>, TestCommands |-> <<>>, GeneratedFileMarks |-> <<>>,
            GenerateCommands |-> <<>>]

buildOfLang(info, fsv, dirsv, dir, name) ==
    LET add(c, t) == [info EXCEPT !.Commands = Append(@, c), !.TestCommands = Append(@, t)]
    IN  CASE name = "go" ->
                [add("go build ./...", "go test ./...") EXCEPT
                    !.GeneratedFileMarks = @ \o <<"// Code generated",
                                                  "// THIS FILE WAS GENERATED; DO NOT EDIT!">>]
          [] name = "typescript" -> add("npx tsc --noEmit", "npm test")
          [] name = "python" -> add("python -m py_compile", "pytest")
          [] name = "rust" -> add("cargo build", "cargo test")
          [] name = "java" ->
                IF fileExists(fsv, dirsv, Join(dir, <<"pom.xml">>))
                THEN add("mvn compile", "mvn test")
                ELSE add("gradle build", "gradle test")
          [] OTHER -> info

buildOfFramework(info, name) ==
    CASE name = "eventsrc" ->
            [info EXCEPT !.GenerateCommands = Append(@, "go run main.go generate-dsl [domain]")]
      [] name = "nextjs" -> [info EXCEPT !.Commands = appendUnique(@, "npm run build")]
      [] OTHER -> info

RECURSIVE buildLangs(_, _, _, _, _)
buildLangs(info, fsv, dirsv, dir, langs) ==
    IF langs = <<>> THEN info
    ELSE buildLangs(buildOfLang(info, fsv, dirsv, dir, Head(langs).Name),
                    fsv, dirsv, dir, Tail(langs))

RECURSIVE buildFrameworks(_, _)
buildFrameworks(info, frameworks) ==
    IF frameworks = <<>> THEN info
    ELSE buildFrameworks(buildOfFramework(info, Head(frameworks).Name), Tail(frameworks))

detectBuild(fsv, dirsv, dir, langs, frameworks) ==
    buildFrameworks(buildLangs(NoBuild, fsv, dirsv, dir, langs), frameworks)

\* one of the three directory patterns: a path of the list below the root,
\* else below a subdirectory of the root whose name has no leading dot
dirPattern(dirsv, dir, paths, label) ==
    LET atRoot == \E i \in DOMAIN paths : dirExistsIn(dirsv, dir, paths[i])
        subs == SubDirs(dirsv, dir)
        inSub == \E k \in DOMAIN subs :
                    /\ ~HasDotPrefix(Base(subs[k]))
                    /\ \E i \in DOMAIN paths : dirExistsIn(dirsv, subs[k], paths[i])
    IN  IF atRoot \/ inSub THEN <<label>> ELSE <<>>

detectPatterns(fsv, dirsv, dir) ==
    LET stat(n) == fileExists(fsv, dirsv, Join(dir, <<n>>))
        one(c, label) == IF c THEN <<label>> ELSE <<>>
        ddd == dirPattern(dirsv, dir, <<<<"internal", "domain">>, <<"src", "domain">>,
                                        <<"domain">>, <<"pkg", "domain">>>>,
                          "domain-driven-design")
        es == dirPattern(dirsv, dir, <<<<"pkg", "eventsrc">>, <<"internal", "eventsrc">>,
                                       <<"eventsrc">>>>, "event-sourcing")
        cg == dirPattern(dirsv, dir, <<<<"pkg", "domainspec">>, <<"pkg", "dslgen">>,
                                       <<"internal", "codegen">>>>, "code-generation")
        mono == one(stat("pnpm-workspace.yaml"), "monorepo") \o one(stat("lerna.json"), "monorepo")
        docker == one(Len(findFiles(fsv, dirsv, dir, "Dockerfile", 2)) > 0, "containerized")
        compose == one(stat("docker-compose.yml") \/ stat("docker-compose.yaml"), "containerized")
        ci == one(dirExistsIn(dirsv, dir, <<".github", "workflows">>), "github-actions")
              \o one(stat(".gitlab-ci.yml"), "gitlab-ci")
        mcp == one(dirExistsIn(dirsv, dir, <<"mcp-server">>), "mcp-server")
    IN  dedupe(ddd \o es \o cg \o mono \o docker \o compose \o ci \o mcp)

RECURSIVE firstModule(_, _)
firstModule(fsv, modPaths) ==
    IF modPaths = <<>> THEN ""
    ELSE LET p == Head(modPaths)
         IN  IF CanRead(fsv, p) /\ fsv[p].data.module # "" THEN fsv[p].data.module
             ELSE firstModule(fsv, Tail(modPaths))

detectGoModule(fsv, dirsv, dir) == firstModule(fsv, findFiles(fsv, dirsv, dir, "go.mod", 2))

\* the seven config locations, in the order they are read
MCPLocations(dir) ==
    <<[path |-> Join(Home, <<".codeium", "windsurf", "mcp_config.json">>), source |-> "windsurf"],
      [path |-> Join(Home, <<".cursor", "mcp.json">>), source |-> "cursor"],
      [path |-> Join(Home, <<".continue", "config.json">>), source |-> "continue"],
      [path |-> Join(dir, <<".cursor", "mcp.json">>), source |-> "cursor"],
      [path |-> Join(dir, <<".vscode", "mcp.json">>), source |-> "vscode"],
      [path |-> Join(dir, <<".windsurf", "mcp_config.json">>), source |-> "windsurf"],
      [path |-> Join(dir, <<"mcp.json">>), source |-> "project"]>>

\* json.Unmarshal into mcpConfigFile fails
BadJSON(data) == ~data.mcp.valid

\* the entry of one server as parseMCPConfig builds it
serverOf(name, entry) ==
    [Name |-> name,
     Command |-> IF entry.Command = "" /\ entry.URL # "" THEN "http" ELSE entry.Command,
     Source |-> ""]

RECURSIVE rangeMap(_, _)
rangeMap(m, order) ==
    IF order = <<>> THEN <<>>
    ELSE (IF Head(order) \in DOMAIN m THEN <<serverOf(Head(order), m[Head(order)])>> ELSE <<>>)
         \o rangeMap(m, Tail(order))

\* order is the order in which this range over the map yields the names
parseMCPConfig(fsv, path, order) ==
    IF ~CanRead(fsv, path) \/ BadJSON(fsv[path].data) THEN <<>>
    ELSE rangeMap(fsv[path].data.mcp.servers, order)

\* a slip: a later location overwrites the source of a name already seen
addEntry_LastWins(servers, e, source) ==
    IF \E i \in DOMAIN servers : servers[i].Name = e.Name
    THEN [i \in DOMAIN servers |->
            IF servers[i].Name = e.Name THEN [servers[i] EXCEPT !.Source = source]
            ELSE servers[i]]
    ELSE Append(servers, [e EXCEPT !.Source = source])

\* the body of the inner loop of detectMCPServers
addEntry(servers, e, source) ==
    IF \E i \in DOMAIN servers : servers[i].Name = e.Name THEN servers
    ELSE Append(servers, [e EXCEPT !.Source = source])

RECURSIVE addEntries(_, _, _)
addEntries(servers, entries, source) ==
    IF entries = <<>> THEN servers
    ELSE addEntries(addEntry(servers, Head(entries), source), Tail(entries), source)

RECURSIVE readLocations(_, _, _, _)
readLocations(servers, fsv, locs, orders) ==
    IF locs = <<>> THEN servers
    ELSE readLocations(addEntries(servers, parseMCPConfig(fsv, Head(locs).path, Head(orders)),
                                  Head(locs).source),
                       fsv, Tail(locs), Tail(orders))

\* orders[i] is the map order of the i-th location's range loop
detectMCPServers(fsv, dir, orders) == readLocations(<<>>, fsv, MCPLocations(dir), orders)

\* Scan(dir): the stack and the error it returns
Scan(fsv, dirsv, dir, orders) ==
    LET langs == detectLanguages(fsv, dirsv, dir)
        frameworks == detectFrameworks(fsv, dirsv, dir, langs)
    IN  [stack |-> [Languages |-> langs,
                    Frameworks |-> frameworks,
                    Build |-> detectBuild(fsv, dirsv, dir, langs, frameworks),
                    Patterns |-> detectPatterns(fsv, dirsv, dir),
                    GoModule |-> detectGoModule(fsv, dirsv, dir),
                    MCPServers |-> detectMCPServers(fsv, dir, orders)],
         err |-> FALSE]

-----------------------------------------------------------------------------
(* Scans of a project that somebody fills with manifests and configs       *)

MaxFiles == 2

MaxConfigs == 2

ScanRoot == <<"srv", "app">>

NoMCP == [valid |-> FALSE, servers |-> <<>>]

Text(module, subs) == [module |-> module, subs |-> subs, mcp |-> NoMCP]

\* go.mod texts: two well-formed ones, and one without a module directive
GoModTexts == {Text("m1", {"gin-gonic"}), Text("m2", {}), Text("", {"gin-gonic"})}

PkgTexts == {Text("", {"\"next\"", "\"react\""}), Text("", {"\"react\""})}

ServerNames == {"db", "git"}

MapOrders == {<<"db", "git">>, <<"git", "db">>}

JSONText(servers) == [module |-> "", subs |-> {}, mcp |-> [valid |-> TRUE, servers |-> servers]]

\* MCP config texts: one server, two servers (one of them remote), no JSON
McpTexts ==
    {JSONText([n \in {"db"} |-> [Command |-> "npx", URL |-> ""]]),
     JSONText([n \in ServerNames |->
                 IF n = "db" THEN [Command |-> "uvx", URL |-> ""]
                 ELSE [Command |-> "", URL |-> "https"]]),
     Text("", {})}

\* the manifests somebody may write below the root: path and text
ManifestFiles ==
    {[rel |-> r, data |-> t] :
        r \in {<<"go.mod">>, <<"api", "go.mod">>, <<"web", "go.mod">>, <<"api", "svc", "go.mod">>,
               <<"api", "svc", "x", "go.mod">>, <<"vendor", "go.mod">>},
        t \in GoModTexts}
    \cup {[rel |-> r, data |-> t] :
            r \in {<<"package.json">>, <<"web", "package.json">>}, t \in PkgTexts}
    \cup {[rel |-> <<"go.sum">>, data |-> Text("", {})],
          [rel |-> <<"requirements.txt">>, data |-> Text("", {"django"})]}

\* the directories somebody may create below the root
PatternDirs == {<<"internal", "domain">>, <<".github", "workflows">>}

\* the directories between base and p
Ancestors(base, p) == {SubSeq(p, 1, k) : k \in Len(base) + 1 .. Len(p) - 1}

PutFile(fsv, p, data, rd) ==
    [q \in DOMAIN fsv \cup {p} |-> IF q = p THEN [data |-> data, readable |-> rd] ELSE fsv[q]]

\* the orders the range loops over the maps of the locations can take: a map
\* of fewer than two names has one order
RECURSIVE MapOrdersOf(_, _)
MapOrdersOf(fsv, locs) ==
    IF locs = <<>> THEN {<<>>}
    ELSE LET p == Head(locs).path
             os == IF CanRead(fsv, p) /\ ~BadJSON(fsv[p].data)
                      /\ Cardinality(DOMAIN fsv[p].data.mcp.servers) > 1
                   THEN MapOrders ELSE {<<"db", "git">>}
         IN  {<<o>> \o t : o \in os, t \in MapOrdersOf(fsv, Tail(locs))}

InitScan ==
    /\ projectDir = ScanRoot
    /\ cfg = [Targets |-> <<>>, Windsurf |-> <<".windsurf">>, Multiagency |-> <<"multiagency">>,
              Memories |-> <<>>, Detected |-> "v1"]
    /\ fs = EmptyFS
    /\ dirs \in {{}, {projectDir}}
    /\ ret = NoRet
    /\ fresh = FALSE
    /\ edits = 0

\* somebody writes a manifest into the existing project
WriteManifest ==
    \E f \in ManifestFiles, rd \in BOOLEAN :
        LET p == Join(projectDir, f.rel)
        IN  /\ edits < MaxFiles
            /\ projectDir \in dirs
            /\ p \notin DOMAIN fs
            /\ fs' = PutFile(fs, p, f.data, rd)
            /\ dirs' = dirs \cup Ancestors(projectDir, p)
            /\ edits' = edits + 1
            /\ ret' = NoRet
            /\ UNCHANGED <<projectDir, cfg, fresh>>

\* somebody writes an MCP config for Cursor in the home directory or a
\* project-level mcp.json
WriteConfig ==
    \E i \in {2, 7}, t \in McpTexts, rd \in BOOLEAN :
        LET p == MCPLocations(projectDir)[i].path
            base == IF i = 2 THEN Home ELSE projectDir
        IN  /\ edits < MaxFiles
            /\ i = 7 => projectDir \in dirs
            /\ p \notin DOMAIN fs
            /\ fs' = PutFile(fs, p, t, rd)
            /\ dirs' = dirs \cup Ancestors(base, p)
            /\ edits' = edits + 1
            /\ ret' = NoRet
            /\ UNCHANGED <<projectDir, cfg, fresh>>

MakeDir ==
    \E d \in PatternDirs :
        LET p == Join(projectDir, d)
        IN  /\ edits < MaxFiles
            /\ projectDir \in dirs
            /\ p \notin dirs
            /\ dirs' = dirs \cup Ancestors(projectDir, p) \cup {p}
            /\ edits' = edits + 1
            /\ ret' = NoRet
            /\ UNCHANGED <<projectDir, cfg, fs, fresh>>

\* scanner.Scan(projectDir)
ScanStep ==
    \E orders \in MapOrdersOf(fs, MCPLocations(projectDir)) :
        /\ \E r \in {Scan(fs, dirs, projectDir, orders)} :
              ret' = [op |-> "Scan", err |-> r.err, stack |-> r.stack, orders |-> orders]
        /\ UNCHANGED <<projectDir, cfg, fs, dirs, fresh, edits>>

NextScan ==
    \/ WriteManifest
    \/ WriteConfig
    \/ MakeDir
    \/ ScanStep

SpecScan == InitScan /\ [][NextScan]_vars

Scanned == ret.op = "Scan"

NoTwo(seq, same(_, _)) == \A i, j \in DOMAIN seq : i # j => ~same(seq[i], seq[j])

SameName(a, b) == a.Name = b.Name

SameNameAndDir(a, b) == a.Name = b.Name /\ a.Dir = b.Dir

\* C6: the Languages of a scan never hold two entries with one name, and the
\* Frameworks never hold two entries with one name and one Dir.
C6_NoDuplicates ==
    Scanned =>
        /\ NoTwo(ret.stack.Languages, SameName)
        /\ NoTwo(ret.stack.Frameworks, SameNameAndDir)

\* a scan of a root that holds both go.mod and go.sum
C6_Witness ==
    /\ Scanned
    /\ Join(projectDir, <<"go.mod">>) \in DOMAIN fs
    /\ Join(projectDir, <<"go.sum">>) \in DOMAIN fs
    /\ Len(ret.stack.Languages) = 1

\* C9: a scan of a project root that does not exist returns an error.
C9_MissingRootIsError == (Scanned /\ projectDir \notin dirs) => ret.err

\* the text of p is not what its reader expects: no JSON in an MCP config,
\* no module directive in a go.mod
Malformed(p) ==
    IF Base(p) \in {"mcp.json", "mcp_config.json", "config.json"} THEN BadJSON(fs[p].data)
    ELSE Base(p) = "go.mod" /\ fs[p].data.module = ""

Without(fsv, p) == [q \in DOMAIN fsv \ {p} |-> fsv[q]]

\* C10: a scan succeeds, and every unreadable or malformed manifest or MCP
\* config leaves the stack as it would be with that file absent.
C10_BadFileAsAbsent ==
    Scanned =>
        /\ ~ret.err
        /\ \A p \in DOMAIN fs :
              (~fs[p].readable \/ Malformed(p)) =>
                  ret.stack = Scan(Without(fs, p), dirs, projectDir, ret.orders).stack

\* C11: two scans of one filesystem snapshot return the same stack, the
\* order of every list included.
C11_ScanDeterministic ==
    [][(ret.op = "Scan" /\ ret'.op = "Scan") => ret'.stack = ret.stack]_vars

-----------------------------------------------------------------------------
(* MCP detection over all seven locations                                  *)

InitMCP ==
    /\ projectDir \in {ScanRoot, Home}
    /\ cfg = [Targets |-> <<>>, Windsurf |-> <<".windsurf">>, Multiagency |-> <<"multiagency">>,
              Memories |-> <<>>, Detected |-> "v1"]
    /\ fs = EmptyFS
    /\ dirs = {Home, projectDir}
    /\ ret = NoRet
    /\ fresh = FALSE
    /\ edits = 0

\* somebody writes the config of one of the locations
WriteLocation ==
    \E i \in 1 .. 7, t \in McpTexts, rd \in BOOLEAN :
        LET p == MCPLocations(projectDir)[i].path
            base == IF i <= 3 THEN Home ELSE projectDir
        IN  /\ edits < MaxConfigs
            /\ p \notin DOMAIN fs
            /\ fs' = PutFile(fs, p, t, rd)
            /\ dirs' = dirs \cup Ancestors(base, p)
            /\ edits' = edits + 1
            /\ ret' = NoRet
            /\ UNCHANGED <<projectDir, cfg, fresh>>

\* detectMCPServers(projectDir)
DetectMCPStep ==
    \E orders \in MapOrdersOf(fs, MCPLocations(projectDir)) :
        /\ ret' = [op |-> "detectMCPServers", err |-> FALSE,
                   servers |-> detectMCPServers(fs, projectDir, orders)]
        /\ UNCHANGED <<projectDir, cfg, fs, dirs, fresh, edits>>

NextMCP ==
    \/ WriteLocation
    \/ DetectMCPStep

SpecMCP == InitMCP /\ [][NextMCP]_vars

\* the config at the i-th location is read, is JSON and has an entry for name
Defines(i, name) ==
    LET p == MCPLocations(projectDir)[i].path
    IN  /\ p \in DOMAIN fs
        /\ fs[p].readable
        /\ fs[p].data.mcp.valid
        /\ name \in DOMAIN fs[p].data.mcp.servers

\* the earliest location that defines name
Earliest(name) == CHOOSE i \in 1 .. 7 : Defines(i, name) /\ \A j \in 1 .. i - 1 : ~Defines(j, name)

\* C7: each defined server name is reported once, with the label of the
\* earliest location that defines it, so a name of a home-level and of a
\* project-level config carries the home-level label; nothing else is reported.
C7_EarliestLocationWins ==
    ret.op = "detectMCPServers" =>
        /\ NoTwo(ret.servers, SameName)
        /\ \A k \in DOMAIN ret.servers :
              /\ \E i \in 1 .. 7 : Defines(i, ret.servers[k].Name)
              /\ ret.servers[k].Source =
                    MCPLocations(projectDir)[Earliest(ret.servers[k].Name)].source
        /\ \A n \in ServerNames :
              (\E i \in 1 .. 7 : Defines(i, n)) => \E k \in DOMAIN ret.servers : ret.servers[k].Name = n

\* a detection where one name is defined in the home-level Windsurf config
\* and in the project's mcp.json
C7_Witness ==
    /\ ret.op = "detectMCPServers"
    /\ Defines(1, "db")
    /\ Defines(7, "db")
    /\ \E k \in DOMAIN ret.servers :
          ret.servers[k].Name = "db" /\ ret.servers[k].Source = "windsurf"

-----------------------------------------------------------------------------
(* Project maturity                                                        *)

MaturityBootstrap == "bootstrap"

MaturityActive == "active"

MaturityMature == "mature"

SourceNames ==
    <<"s01.go", "s02.go", "s03.go", "s04.go", "s05.go", "s06.go", "s07.go", "s08.go",
      "s09.go", "s10.go", "s11.go", "s12.go">>

\* filepath.Ext of the file names of the model
Ext(n) ==
    CASE n \in {SourceNames[i] : i \in DOMAIN SourceNames} \cup {"main_test.go"} -> ".go"
      [] n \in {"go.mod"} -> ".mod"
      [] n \in {"go.sum"} -> ".sum"
      [] n \in {"package.json", "mcp.json", "mcp_config.json", "config.json", "lerna.json"} -> ".json"
      [] n \in {"requirements.txt"} -> ".txt"
      [] n \in {".gitlab-ci.yml", "docker-compose.yml"} -> ".yml"
      [] n \in {"docker-compose.yaml", "pnpm-workspace.yaml"} -> ".yaml"
      [] OTHER -> ""

exts == {".go", ".ts", ".tsx", ".js", ".jsx", ".py", ".rs", ".java", ".rb", ".ex"}

\* the name has one of the test suffixes of hasTestFiles
HasTestSuffix(n) == n \in {"main_test.go"}

countSourceFiles(fsv, dirsv, dir) ==
    Cardinality({p \in Walked(fsv, dirsv, dir, SkipDeps \cup {"dist", "build"}, 4) :
                    p \in DOMAIN fsv /\ Ext(Base(p)) \in exts})

\* the walk of hasTestFiles has no depth limit: 99 is below no directory
hasTestFiles(fsv, dirsv, dir) ==
    \E p \in Walked(fsv, dirsv, dir, SkipDeps, 99) : p \in DOMAIN fsv /\ HasTestSuffix(Base(p))

countDirs(fsv, dirsv, dir, maxDepth) ==
    Cardinality({p \in Walked(fsv, dirsv, dir, SkipDeps, maxDepth) :
                    /\ p \in dirsv
                    /\ Base(p) \notin SkipDeps
                    /\ Seps(dir, p) <= maxDepth})

\* a slip: the boundary of the source-file test moved by one
DetectMaturity_OffByOne(fsv, dirsv, dir) ==
    LET sourceFiles == countSourceFiles(fsv, dirsv, dir)
        hasCI == \/ fileExists(fsv, dirsv, Join(dir, <<".github", "workflows">>))
                 \/ fileExists(fsv, dirsv, Join(dir, <<".gitlab-ci.yml">>))
        hasTests == hasTestFiles(fsv, dirsv, dir)
        hasMultiplePackages == countDirs(fsv, dirsv, dir, 2) > 5
    IN  IF sourceFiles <= 10 /\ ~hasCI /\ ~hasTests THEN MaturityBootstrap
        ELSE IF hasCI /\ hasTests /\ hasMultiplePackages THEN MaturityMature
        ELSE MaturityActive

DetectMaturity(fsv, dirsv, dir) ==
    LET sourceFiles == countSourceFiles(fsv, dirsv, dir)
        hasCI == \/ fileExists(fsv, dirsv, Join(dir, <<".github", "workflows">>))
                 \/ fileExists(fsv, dirsv, Join(dir, <<".gitlab-ci.yml">>))
        hasTests == hasTestFiles(fsv, dirsv, dir)
        hasMultiplePackages == countDirs(fsv, dirsv, dir, 2) > 5
    IN  IF sourceFiles < 10 /\ ~hasCI /\ ~hasTests THEN MaturityBootstrap
        ELSE IF hasCI /\ hasTests /\ hasMultiplePackages THEN MaturityMature
        ELSE MaturityActive

MaxSources == 10

\* the directories somebody may create, parents first
TreeDirs ==
    {<<"api">>, <<"api", "svc">>, <<"api", "svc", "x">>, <<"api", "svc", "x", "y">>,
     <<"web">>, <<"lib">>, <<"dist">>, <<"vendor">>}

\* the directories source files are written to
SourceDirs == {<<>>, <<"dist">>}

\* the numbered source files in directory d
SourcesIn(fsv, d) == {p \in DOMAIN fsv : Dir(p) = d /\ Base(p) # "main_test.go" /\ Ext(Base(p)) = ".go"}

InitMaturity ==
    /\ projectDir = ScanRoot
    /\ cfg = [Targets |-> <<>>, Windsurf |-> <<".windsurf">>, Multiagency |-> <<"multiagency">>,
              Memories |-> <<>>, Detected |-> "v1"]
    /\ fs = EmptyFS
    /\ dirs = {projectDir}
    /\ ret = NoRet
    /\ fresh = FALSE
    /\ edits = 0

\* somebody adds the next source file to the root or to dist (one there)
AddSource ==
    \E r \in SourceDirs :
        LET d == Join(projectDir, r)
            n == Cardinality(SourcesIn(fs, d))
        IN  /\ d \in dirs
            /\ edits < MaxSources
            /\ r # <<>> => n = 0
            /\ fs' = PutFile(fs, Join(d, <<SourceNames[n + 1]>>), Text("", {}), TRUE)
            /\ edits' = edits + 1
            /\ ret' = NoRet
            /\ UNCHANGED <<projectDir, cfg, dirs, fresh>>

\* somebody adds a Go test file to the root
AddTest ==
    LET p == Join(projectDir, <<"main_test.go">>)
    IN  /\ p \notin DOMAIN fs
        /\ fs' = PutFile(fs, p, Text("", {}), TRUE)
        /\ ret' = NoRet
        /\ UNCHANGED <<projectDir, cfg, dirs, fresh, edits>>

\* somebody adds GitHub workflows or a GitLab CI file
AddCI ==
    \/ /\ Join(projectDir, <<".github", "workflows">>) \notin dirs
       /\ dirs' = dirs \cup {Join(projectDir, <<".github">>),
                             Join(projectDir, <<".github", "workflows">>)}
       /\ ret' = NoRet
       /\ UNCHANGED <<projectDir, cfg, fs, fresh, edits>>
    \/ /\ Join(projectDir, <<".gitlab-ci.yml">>) \notin DOMAIN fs
       /\ fs' = PutFile(fs, Join(projectDir, <<".gitlab-ci.yml">>), Text("", {}), TRUE)
       /\ ret' = NoRet
       /\ UNCHANGED <<projectDir, cfg, dirs, fresh, edits>>

\* somebody creates a directory whose parent exists
AddDir ==
    \E r \in TreeDirs :
        LET d == Join(projectDir, r)
        IN  /\ d \notin dirs
            /\ Dir(d) \in dirs
            /\ dirs' = dirs \cup {d}
            /\ ret' = NoRet
            /\ UNCHANGED <<projectDir, cfg, fs, fresh, edits>>

\* scanner.DetectMaturity(projectDir)
DetectMaturityStep ==
    /\ ret' = [op |-> "DetectMaturity", err |-> FALSE,
               maturity |-> DetectMaturity(fs, dirs, projectDir)]
    /\ UNCHANGED <<projectDir, cfg, fs, dirs, fresh, edits>>

NextMaturity ==
    \/ AddSource
    \/ AddTest
    \/ AddCI
    \/ AddDir
    \/ DetectMaturityStep

SpecMaturity == InitMaturity /\ [][NextMaturity]_vars

\* the project holds exactly n files, all of them Go sources in the root that
\* are no tests, and no GitHub workflows
PlainSources(n) ==
    /\ Cardinality(DOMAIN fs) = n
    /\ \A p \in DOMAIN fs : Dir(p) = projectDir /\ Ext(Base(p)) = ".go" /\ ~HasTestSuffix(Base(p))
    /\ Join(projectDir, <<".github", "workflows">>) \notin dirs

\* C8: DetectMaturity answers bootstrap exactly for fewer than 10 source
\* files with neither CI nor tests, else mature exactly for CI, tests and
\* more than 5 directories, else active; 9 plain source files are bootstrap,
\* 10 are active.
C8_MaturityDecision ==
    ret.op = "DetectMaturity" =>
        LET n == countSourceFiles(fs, dirs, projectDir)
            ci == \/ Join(projectDir, <<".github", "workflows">>) \in dirs
                  \/ Join(projectDir, <<".gitlab-ci.yml">>) \in DOMAIN fs
            tests == hasTestFiles(fs, dirs, projectDir)
            d == countDirs(fs, dirs, projectDir, 2)
            boot == n < 10 /\ ~ci /\ ~tests
        IN  /\ ret.maturity = "bootstrap" <=> boot
            /\ ret.maturity = "mature" <=> (~boot /\ ci /\ tests /\ d > 5)
            /\ ret.maturity = "active" <=> (~boot /\ ~(ci /\ tests /\ d > 5))
            /\ PlainSources(9) => ret.maturity = "bootstrap"
            /\ PlainSources(10) => ret.maturity = "active"

\* DetectMaturity has answered for a project of exactly 10 plain source files
C8_Witness == ret.op = "DetectMaturity" /\ PlainSources(10) /\ ret.maturity = "active"

-----------------------------------------------------------------------------
(* internal/skills                                                         *)

hasPattern(c, pattern) == \E i \in DOMAIN c.Patterns : c.Patterns[i] = pattern

\* the body of a scaffold is a function of the skill and the configuration
SkillDef(name, c) ==
    [Name |-> name, SkillMD |-> [tpl |-> <<"skills", name>>, data |-> NewTemplateData(c)]]

RECURSIVE patternSkills(_, _)
patternSkills(c, ps) ==
    IF ps = <<>> THEN <<>>
    ELSE (CASE Head(ps) = "domain-driven-design" -> <<SkillDef("domain-changes", c)>>
            [] Head(ps) = "event-sourcing" ->
                  IF ~hasPattern(c, "domain-driven-design")
                  THEN <<SkillDef("event-sourcing", c)>> ELSE <<>>
            [] OTHER -> <<>>)
         \o patternSkills(c, Tail(ps))

RECURSIVE frameworkSkills(_, _)
frameworkSkills(c, fws) ==
    IF fws = <<>> THEN <<>>
    ELSE (CASE Head(fws).Name = "nextjs" -> <<SkillDef("frontend-component", c)>>
            [] Head(fws).Name = "mqtt" -> <<SkillDef("mqtt-integration", c)>>
            [] OTHER -> <<>>)
         \o frameworkSkills(c, Tail(fws))

DetectSkills(c) ==
    patternSkills(c, c.Patterns) \o frameworkSkills(c, c.Frameworks)
        \o <<SkillDef("code-review", c)>>

skillPathOf(dir, c, skill) ==
    LET windsurfDir == IF c.Windsurf = <<>> THEN <<".windsurf">> ELSE c.Windsurf
    IN  Join(dir, windsurfDir \o <<"skills", skill.Name, "SKILL.md">>)

\* a slip: the scaffold is written whether or not the skill is there
skillExists_Never(fsv, dirsv, skillPath) == FALSE

\* os.Stat(skillPath) returns no error
skillExists(fsv, dirsv, skillPath) == fileExists(fsv, dirsv, skillPath)

\* The loop of GenerateSkills from its i-th skill on.  failAt is the
\* iteration whose MkdirAll or WriteFile fails, if it gets that far (0: none).
RECURSIVE generateLoop(_, _, _, _, _, _, _, _)
generateLoop(fsv, dirsv, dir, c, skills, i, failAt, created) ==
    IF skills = <<>> THEN [fs |-> fsv, created |-> created, err |-> FALSE]
    ELSE LET skillPath == skillPathOf(dir, c, Head(skills))
         IN  IF skillExists(fsv, dirsv, skillPath)
             THEN generateLoop(fsv, dirsv, dir, c, Tail(skills), i + 1, failAt, created)
             ELSE IF i = failAt
             THEN [fs |-> fsv, created |-> <<>>, err |-> TRUE]
             ELSE generateLoop(writeFile(fsv, skillPath, Head(skills).SkillMD),
                               dirsv, dir, c, Tail(skills), i + 1, failAt,
                               Append(created, Rel(dir, skillPath)))

GenerateSkills(fsv, dirsv, dir, c, failAt) ==
    generateLoop(fsv, dirsv, dir, c, DetectSkills(c), 1, failAt, <<>>)

-----------------------------------------------------------------------------
(* GenerateSkills runs against a project                                   *)

PatternLists ==
    {<<>>, <<"domain-driven-design">>, <<"event-sourcing">>,
     <<"domain-driven-design", "event-sourcing">>}

\* nextjs is reported once per package.json that names it
FrameworkLists ==
    {<<>>, <<Fw("mqtt", "go", <<".">>)>>,
     <<Fw("nextjs", "typescript", <<".">>), Fw("nextjs", "typescript", <<"web">>)>>,
     <<Fw("mqtt", "go", <<".">>), Fw("nextjs", "typescript", <<"web">>)>>}

SkillPaths ==
    {skillPathOf(projectDir, cfg, DetectSkills(cfg)[i]) : i \in DOMAIN DetectSkills(cfg)}

InitSkills ==
    /\ projectDir = <<"srv", "app">>
    /\ \E ps \in PatternLists, fws \in FrameworkLists, w \in {<<>>, <<".ws">>} :
          cfg = [Targets |-> <<>>, Windsurf |-> w, Multiagency |-> <<>>, Memories |-> <<>>,
                 Detected |-> "v1", Patterns |-> ps, Frameworks |-> fws]
    /\ fs = EmptyFS
    /\ dirs = {}
    /\ ret = NoRet
    /\ fresh = FALSE
    /\ edits = 0

\* skills.GenerateSkills(projectDir, cfg)
GenerateSkillsStep ==
    \E failAt \in 0 .. Len(DetectSkills(cfg)) :
    \E r \in {GenerateSkills(fs, dirs, projectDir, cfg, failAt)} :
        /\ fs' = r.fs
        /\ ret' = [NoRet EXCEPT !.op = "GenerateSkills", !.err = r.err, !.paths = r.created,
                                !.failAt = failAt]
        /\ UNCHANGED <<projectDir, cfg, dirs, fresh, edits>>

\* the user writes a SKILL.md of their own, or customizes a scaffold
CustomizeSkill ==
    \E p \in SkillPaths, rd \in BOOLEAN :
        /\ edits < MaxEdits
        /\ fs' = PutFile(fs, p, Stale, rd)
        /\ edits' = edits + 1
        /\ ret' = NoRet
        /\ UNCHANGED <<projectDir, cfg, dirs, fresh>>

\* the user removes a skill
RemoveSkill ==
    \E p \in DOMAIN fs :
        /\ edits < MaxEdits
        /\ fs' = [q \in DOMAIN fs \ {p} |-> fs[q]]
        /\ edits' = edits + 1
        /\ ret' = NoRet
        /\ UNCHANGED <<projectDir, cfg, dirs, fresh>>

NextSkills ==
    \/ GenerateSkillsStep
    \/ CustomizeSkill
    \/ RemoveSkill

SpecSkills == InitSkills /\ [][NextSkills]_vars

\* the step is a run of GenerateSkills
SkillsRun == ret'.op = "GenerateSkills"

\* no run changes a SKILL.md that was there, or lists it as created
ExistingSkillsKept ==
    SkillsRun =>
        \A p \in DOMAIN fs :
            /\ p \in DOMAIN fs' /\ fs'[p] = fs[p]
            /\ ~contains(ret'.paths, Rel(projectDir, p))

-----------------------------------------------------------------------------
(* cmd/aiops: the commands                                                 *)

\* cfg holds what .aiops.yaml holds; its Version is empty while there is no
\* such file
NoConfig ==
    [Version |-> "", Targets |-> <<>>, Windsurf |-> <<>>, Multiagency |-> <<>>,
     Memories |-> <<>>, Detected |-> "v1", Patterns |-> <<>>, Frameworks |-> <<>>]

\* config.Exists(dir), and config.Load(dir) returns no error
Exists(c) == c.Version # ""

\* the write of a render or of a skill that fails: none, or the second one
FailPoints == {0, 2}

\* .aiops/soul.local.md of the project
SoulLocal(dir) == Join(dir, <<".aiops", "soul.local.md">>)

Elems(seq) == {seq[i] : i \in DOMAIN seq}

\* resolveOutputPath of the single-target renderer
resolveOutputPath(dir, c, relPath) ==
    LET windsurfDir == IF c.Windsurf = <<>> THEN <<".windsurf">> ELSE c.Windsurf
        multiagencyDir == IF c.Multiagency = <<>> THEN <<"multiagency">> ELSE c.Multiagency
        memDir == IF c.Memories = <<>>
                  THEN Join(Home, <<".codeium", "windsurf", "memories">>)
                  ELSE c.Memories
    IN  IF HasPrefix(relPath, "windsurf")
        THEN Join(dir, windsurfDir \o TrimPrefix(relPath, "windsurf"))
        ELSE IF HasPrefix(relPath, "multiagency")
        THEN Join(dir, multiagencyDir \o TrimPrefix(relPath, "multiagency"))
        ELSE IF HasPrefix(relPath, "memories")
        THEN Join(memDir, TrimPrefix(relPath, "memories"))
        ELSE Join(dir, relPath)

RECURSIVE walkOut(_, _, _)
walkOut(files, dir, c) ==
    IF files = <<>> THEN <<>>
    ELSE LET path == Head(files)
             outPath == TrimSuffixTmpl(resolveOutputPath(dir, c, path))
         IN  << [out |-> outPath, content |-> renderFileContent(path, NewTemplateData(c)),
                 rel |-> Rel(dir, outPath)] >>
             \o walkOut(Tail(files), dir, c)

\* The writes of one RenderAll(dir, c) call of the single-target renderer:
\* every file of the corpus, in walk order
WalkOutputs(dir, c) == walkOut(TemplateFS, dir, c)

\* the writes of RenderAll(dir, c) of the renderer the commands are built
\* with: the single-target one, or the multi-target one
Outputs(single, dir, c) == IF single THEN WalkOutputs(dir, c) ELSE RenderOutputs(dir, c)

\* cmdInit.  reinit and correct are the answers to "Reinitialize?" (asked when
\* .aiops.yaml exists) and to "Is this correct?", st is what the scan
\* reports, failAt is the failing write of the first render, more says that
\* the specs found after the first render outnumber those found before it,
\* which makes the command render once more with them.
CmdInit ==
    \E reinit \in (IF Exists(cfg) THEN BOOLEAN ELSE {TRUE}), correct \in BOOLEAN,
       st \in Stamps, failAt \in FailPoints, more \in BOOLEAN :
        IF ~reinit
        THEN /\ ret' = [NoRet EXCEPT !.op = "init", !.no = TRUE]
             /\ UNCHANGED <<projectDir, cfg, fs, dirs, fresh, edits>>
        ELSE /\ failAt = 0 \/ ~more
             /\ \E c \in {[Version |-> "1",
                           Targets |-> NamesOf(Detect(fs, dirs, projectDir)),
                           Windsurf |-> <<>>, Multiagency |-> <<>>, Memories |-> <<>>,
                           Detected |-> st, Patterns |-> <<>>, Frameworks |-> <<>>]} :
                \E r \in {RenderAll(fs, projectDir, c, failAt)} :
                \E st2 \in Stamps \ {st} :
                \E c2 \in {IF more THEN [c EXCEPT !.Detected = st2] ELSE c} :
                \E r2 \in {IF more THEN RenderAll(r.fs, projectDir, c2, 0) ELSE r} :
                   /\ fs' = r2.fs
                   /\ cfg' = c2
                   /\ ret' = [NoRet EXCEPT !.op = "init", !.err = r2.err,
                                           !.paths = r2.paths,
                                           !.yes = (Exists(cfg) \/ correct),
                                           !.no = ~correct, !.rendered = TRUE]
                   /\ UNCHANGED <<projectDir, dirs, fresh, edits>>

\* cmdSync built with one of the two renderers.  st is what the re-scan
\* reports; nothing is asked.
SyncWith(single) ==
    \E st \in Stamps, failAt \in FailPoints :
       \E targetNames \in {NamesOf(Detect(fs, dirs, projectDir))} :
          IF st = cfg.Detected /\ Elems(targetNames) = Elems(cfg.Targets)
          THEN /\ failAt = 0
               /\ ret' = [NoRet EXCEPT !.op = "sync"]
               /\ UNCHANGED <<projectDir, cfg, fs, dirs, fresh, edits>>
          ELSE \E c \in {[cfg EXCEPT !.Detected = st, !.Targets = targetNames]} :
               \E r \in {RenderWrites(fs, Outputs(single, projectDir, c), failAt)} :
                  /\ fs' = r.fs
                  /\ cfg' = c
                  /\ ret' = [NoRet EXCEPT !.op = "sync", !.err = r.err, !.paths = r.paths,
                                          !.rendered = TRUE]
                  /\ UNCHANGED <<projectDir, dirs, fresh, edits>>

CmdSync ==
    /\ Exists(cfg)
    /\ SyncWith(FALSE)

\* cmdUpdate built with one of the two renderers.  mkOK and failAt are those
\* of ComputePlan, answer is the answer to "Apply these changes?", failAt2 the
\* failing write of the real render.
UpdateWith(single) ==
    \E mkOK \in BOOLEAN, failAt \in FailPoints :
       /\ mkOK \/ failAt = 0
       /\ \E p \in {ComputePlanWith(fs, dirs, projectDir, cfg,
                                    Outputs(single, TmpDir, TmpCfg(cfg)), mkOK, failAt)} :
             /\ dirs' = p.dirs
             /\ IF p.err
                THEN /\ fs' = p.fs
                     /\ ret' = [NoRet EXCEPT !.op = "update", !.err = TRUE]
                ELSE IF p.plan.NewFiles = 0 /\ p.plan.Modified = 0
                THEN /\ fs' = p.fs
                     /\ ret' = [NoRet EXCEPT !.op = "update", !.plan = p.plan]
                ELSE \E answer \in BOOLEAN :
                     IF ~answer
                     THEN /\ fs' = p.fs
                          /\ ret' = [NoRet EXCEPT !.op = "update", !.plan = p.plan,
                                                  !.shown = TRUE, !.no = TRUE]
                     ELSE \E failAt2 \in FailPoints :
                          \E r \in {RenderWrites(p.fs, Outputs(single, projectDir, cfg), failAt2)} :
                             /\ fs' = r.fs
                             /\ ret' = [NoRet EXCEPT !.op = "update", !.plan = p.plan,
                                                     !.shown = TRUE, !.yes = TRUE,
                                                     !.rendered = TRUE, !.err = r.err,
                                                     !.paths = r.paths]
             /\ UNCHANGED <<projectDir, cfg, fresh, edits>>

CmdUpdate ==
    /\ Exists(cfg)
    /\ UpdateWith(FALSE)

\* cmdSkills.  answer is the answer to "Generate these skill scaffolds?"
CmdSkills ==
    /\ Exists(cfg)
    /\ Len(DetectSkills(cfg)) # 0
    /\ \E answer \in BOOLEAN, failAt \in FailPoints :
       \E r \in {GenerateSkills(fs, dirs, projectDir, cfg, failAt)} :
          /\ IF ~answer
             THEN /\ fs' = fs
                  /\ ret' = [NoRet EXCEPT !.op = "skills", !.no = TRUE]
             ELSE /\ fs' = r.fs
                  /\ ret' = [NoRet EXCEPT !.op = "skills", !.yes = TRUE, !.err = r.err,
                                          !.paths = r.created]
          /\ UNCHANGED <<projectDir, cfg, dirs, fresh, edits>>

\* the files the user edits between two commands: the local soul, a rules
\* file in the project, the rules file in the home directory
EditPaths ==
    {SoulLocal(projectDir), Join(projectDir, Cursor.RepoRulesPath),
     Join(Home, Windsurf.GlobalRules)}

UserEdit ==
    \E p \in EditPaths :
        /\ edits < MaxEdits
        /\ fs' = PutFile(fs, p, Stale, TRUE)
        /\ edits' = edits + 1
        /\ ret' = NoRet
        /\ UNCHANGED <<projectDir, cfg, dirs, fresh>>

InitCLI ==
    /\ projectDir \in {<<"srv", "app">>, Home}
    /\ cfg = NoConfig
    /\ fs = EmptyFS
    /\ dirs = {}
    /\ ret = NoRet
    /\ fresh = FALSE
    /\ edits = 0

NextCLI ==
    \/ CmdInit
    \/ CmdSync
    \/ CmdUpdate
    \/ CmdSkills
    \/ UserEdit

SpecCLI == InitCLI /\ [][NextCLI]_vars

-----------------------------------------------------------------------------
(* updater.Apply after updater.ComputePlan                                 *)

\* updater.Apply(projectDir, cfg, plan, includeUnchanged) with the plan that
\* ComputePlan has just returned
ApplyStep ==
    /\ ret.op = "ComputePlan"
    /\ ~ret.err
    /\ \E outs \in {RenderOutputs(projectDir, cfg)} :
       \E inc \in BOOLEAN, failAt \in 0 .. Len(outs) :
       \E r \in {ApplyWith(fs, outs, ret.plan, inc, failAt)} :
            /\ fs' = r.fs
            /\ ret' = [NoRet EXCEPT !.op = "Apply", !.err = r.err, !.paths = r.paths,
                                    !.plan = ret.plan, !.failAt = failAt,
                                    !.includeUnchanged = inc]
            /\ UNCHANGED <<projectDir, cfg, dirs, fresh, edits>>

InitApply ==
    /\ projectDir = <<"srv", "app">>
    /\ \E ts \in TargetLists :
          cfg = [Targets |-> ts, Windsurf |-> <<>>, Multiagency |-> <<>>,
                 Memories |-> <<>>, Detected |-> "v1"]
    /\ fs = EmptyFS
    /\ dirs = {}
    /\ ret = NoRet
    /\ fresh = FALSE
    /\ edits = 0

NextApply ==
    \/ RenderAllStep
    \/ ComputePlanStep
    \/ ApplyStep
    \/ ExternalWrite

SpecApply == InitApply /\ [][NextApply]_vars

\* the indices of the Diffs that Apply reports
Reported(plan, inc) == {i \in DOMAIN plan.Diffs : inc \/ plan.Diffs[i].Status # "unchanged"}

\* the k-th index of the set S of numbers
Nth(S, k) == CHOOSE i \in S : Cardinality({j \in S : j <= i}) = k

\* C16: Apply renders the real project and returns, in plan order, the paths
\* of the Diffs that are not unchanged, or of all Diffs when includeUnchanged
\* is set; when the render fails it returns an error and no paths.
C16_ApplyReportsChanged ==
    [][ret'.op = "Apply" =>
          IF ret'.err THEN ret'.paths = <<>>
          ELSE LET R == Reported(ret'.plan, ret'.includeUnchanged)
                   outs == RenderOutputs(projectDir, cfg)
               IN  /\ ret'.plan = ret.plan
                   /\ Len(ret'.paths) = Cardinality(R)
                   /\ \A k \in 1 .. Cardinality(R) :
                         ret'.paths[k] = ret'.plan.Diffs[Nth(R, k)].Path
                   /\ \A i \in DOMAIN outs :
                         /\ outs[i].out \in DOMAIN fs'
                         /\ fs'[outs[i].out].data = outs[i].content]_vars

\* Apply has succeeded without includeUnchanged on a plan that holds an
\* unchanged entry and another one
C16_Witness ==
    /\ ret.op = "Apply"
    /\ ~ret.err
    /\ ~ret.includeUnchanged
    /\ \E i, j \in DOMAIN ret.plan.Diffs :
          ret.plan.Diffs[i].Status = "unchanged" /\ ret.plan.Diffs[j].Status # "unchanged"

-----------------------------------------------------------------------------
(* Properties of the commands                                              *)

NoChanges(plan) == plan.NewFiles = 0 /\ plan.Modified = 0

\* C17: a run of `aiops update` calls RenderAll on the project only after it
\* has computed and shown the plan and the user has confirmed; when the plan
\* has no new or modified entry, or the user declines, the run writes no file
\* of the project.
C17_UpdateOnlyWithApproval ==
    [][ret'.op = "update" =>
          /\ ret'.rendered => (ret'.shown /\ ret'.yes)
          /\ ((~ret'.err /\ NoChanges(ret'.plan)) \/ ret'.no)
                => ProjectFiles(fs') = ProjectFiles(fs)]_vars

Commands == {"init", "sync", "update", "skills"}

\* C18: a run of init, sync, update or skills that writes a file of the
\* project has got an affirmative answer to a confirmation prompt in that run,
\* and a run that got a negative answer to a prompt writes none.
C18_NeverAutoApplies ==
    [][ret'.op \in Commands =>
          /\ ProjectFiles(fs') # ProjectFiles(fs) => ret'.yes
          /\ ret'.no => ProjectFiles(fs') = ProjectFiles(fs)]_vars

-----------------------------------------------------------------------------
(* The single-target renderer and the local soul                           *)

\* cmdSync and cmdUpdate built with the single-target renderer
CmdSyncWalk ==
    /\ Exists(cfg)
    /\ SyncWith(TRUE)

CmdUpdateWalk ==
    /\ Exists(cfg)
    /\ UpdateWith(TRUE)

\* where the walk renders the local soul
RenderedSoul(dir) == Join(dir, <<"soul", "soul.local.md">>)

\* the user makes the local soul their own
EditSoul ==
    /\ edits < MaxEdits
    /\ RenderedSoul(projectDir) \in DOMAIN fs
    /\ fs' = PutFile(fs, RenderedSoul(projectDir), Stale, TRUE)
    /\ edits' = edits + 1
    /\ ret' = NoRet
    /\ UNCHANGED <<projectDir, cfg, dirs, fresh>>

InitSoul ==
    /\ projectDir \in {<<"srv", "app">>, Home}
    /\ \E ps \in PathSettings :
          cfg = [NoConfig EXCEPT !.Version = "1", !.Windsurf = ps.Windsurf,
                                 !.Multiagency = ps.Multiagency]
    /\ fs = EmptyFS
    /\ dirs = {}
    /\ ret = NoRet
    /\ fresh = FALSE
    /\ edits = 0

NextSoul ==
    \/ CmdSyncWalk
    \/ CmdUpdateWalk
    \/ EditSoul

SpecSoul == InitSoul /\ [][NextSoul]_vars

\* C20: a run of sync or update leaves every soul.local.md that is in the
\* project before the run in place and with the content it had.
C20_SoulLocalKept ==
    [][ret'.op \in {"sync", "update"} =>
          \A p \in DOMAIN fs :
              (Under(projectDir, p) /\ Base(p) = "soul.local.md")
                 => (p \in DOMAIN fs' /\ fs'[p] = fs[p])]_vars

-----------------------------------------------------------------------------
(* Further properties of the planner                                       *)

\* C21: in every plan, the path whose hash ComputePlan took as the current
\* one of a rendered output is the path RenderAll(projectDir, cfg) writes
\* that output to.
C21_SamePathMapping ==
    Planned =>
        LET outs == RenderOutputs(projectDir, cfg)
        IN  /\ Len(ret.plan.Diffs) = Len(outs)
            /\ \A i \in DOMAIN outs : ret.plan.Diffs[i].Real = outs[i].out


\* how many Diffs of the plan carry the status
WithStatus(plan, status) == Cardinality({i \in DOMAIN plan.Diffs : plan.Diffs[i].Status = status})

\* C27: every Diff of a plan is new, modified or unchanged; NewFiles,
\* Modified and Unchanged are the numbers of Diffs of each status, and their
\* sum is the number of Diffs, one for every path the scratch render returned.
C27_PlanCounts ==
    Planned =>
        LET plan == ret.plan
        IN  /\ \A i \in DOMAIN plan.Diffs : plan.Diffs[i].Status \in {"new", "modified", "unchanged"}
            /\ plan.NewFiles = WithStatus(plan, "new")
            /\ plan.Modified = WithStatus(plan, "modified")
            /\ plan.Unchanged = WithStatus(plan, "unchanged")
            /\ plan.NewFiles + plan.Modified + plan.Unchanged = Len(plan.Diffs)
            /\ Len(plan.Diffs) = Len(RenderOutputs(TmpDir, TmpCfg(cfg)))

\* a plan that holds a modified and an unchanged file
C27_Witness ==
    Planned /\ ret.plan.Modified > 0 /\ ret.plan.Unchanged > 0

-----------------------------------------------------------------------------
(* Further properties of the scanner                                       *)

\* the directories whose go.mod the framework detection reads and finds a
\* gin import in
GinDirs ==
    {Dir(p) : p \in {q \in Elems(findFiles(fs, dirs, projectDir, "go.mod", 2)) :
                        containsInFile(fs, Dir(q), "go.mod", "gin-gonic")}}

\* C22: a successful scan of a Go project reports gin once for every
\* directory whose go.mod imports it, each entry with that directory as Dir.
C22_FrameworkPerDirectory ==
    (Scanned /\ ~ret.err /\ hasLang(ret.stack.Languages, "go")) =>
        \A d \in GinDirs :
            Cardinality({i \in DOMAIN ret.stack.Frameworks :
                            /\ ret.stack.Frameworks[i].Name = "gin"
                            /\ ret.stack.Frameworks[i].Dir = RelDot(projectDir, d)}) = 1


\* C26: a scan of a project whose root go.mod can be read and holds a module
\* line returns that module as GoModule, whatever go.mod files the
\* subdirectories hold.
C26_RootModuleFirst ==
    LET root == Join(projectDir, <<"go.mod">>)
    IN  (Scanned /\ ~ret.err /\ CanRead(fs, root) /\ fs[root].data.module # "") =>
            ret.stack.GoModule = fs[root].data.module

-----------------------------------------------------------------------------
(* Further properties of the maturity detection                            *)

\* the directory names the claim lists as excluded from both counters
Excluded == {"dist", "build", "node_modules", "vendor", ".git"}

\* p lies in or below a directory of the project with an excluded name
InExcluded(p) ==
    \E k \in Len(projectDir) + 1 .. Len(p) :
        p[k] \in Excluded /\ (k < Len(p) \/ p \in dirs)

\* the project without its excluded directories and what they hold
KeptDirs == {d \in dirs : ~InExcluded(d)}

KeptFS == [p \in {q \in DOMAIN fs : ~InExcluded(q)} |-> fs[p]]

\* C23: the excluded directories count neither as source files nor as
\* directories: both counters of DetectMaturity give what they give for the
\* project without them.
C23_SameExclusions ==
    ret.op = "DetectMaturity" =>
        /\ countSourceFiles(fs, dirs, projectDir) = countSourceFiles(KeptFS, KeptDirs, projectDir)
        /\ countDirs(fs, dirs, projectDir, 2) = countDirs(KeptFS, KeptDirs, projectDir, 2)

\* C24: creating a directory three or more levels below the root never
\* changes what DetectMaturity answers.
C24_DeepDirsIgnored ==
    [][\A d \in dirs' \ dirs :
          Len(d) - Len(projectDir) >= 3 =>
              DetectMaturity(fs', dirs', projectDir) = DetectMaturity(fs, dirs, projectDir)]_vars


-----------------------------------------------------------------------------
(* Further properties of the commands                                      *)

\* the paths checks 5 to 7 of cmdDoctor report as failed: the repo rules of
\* the detected targets, the three workflows and the session state
cmdDoctor(fsv, dirsv, dir, c) ==
    LET targets == Detect(fsv, dirsv, dir)
        windsurfDir == IF c.Windsurf = <<>> THEN <<".windsurf">> ELSE c.Windsurf
        rules == {Join(dir, targets[i].RepoRulesPath) :
                     i \in {j \in DOMAIN targets : targets[j].RepoRulesPath # <<>>}}
        workflows == {Join(dir, windsurfDir \o <<"workflows", wf>>) :
                         wf \in {"default-mode.md", "multiagency.md", "orchestrator.md"}}
        state == {Join(dir, windsurfDir \o <<"orchestrator", "session_state.yaml">>)}
    IN  {p \in rules \cup workflows \cup state : ~fileExists(fsv, dirsv, p)}

\* C25: after a sync that succeeded, doctor reports none of the artifacts
\* the renderer generates for the project as missing.
C25_SyncRestoresArtifacts ==
    (ret.op = "sync" /\ ~ret.err) =>
        cmdDoctor(fs, dirs, projectDir, cfg) \cap OutPaths(RenderOutputs(projectDir, cfg)) = {}


-----------------------------------------------------------------------------
(* internal/evolve and the evolve command                                  *)

\* the directive_log a session_state.yaml holds: the rendered template holds
\* an empty one, the agents append to it
DirectiveLog(content) == IF "log" \in DOMAIN content THEN content.log ELSE <<>>

generateProposal(rule, directives) ==
    IF rule \in {"escalation", "tier_classification", "intent_scope"}
    THEN [kind |-> rule, n |-> 0, reasons |-> <<>>]
    ELSE LET withReason == SelectSeq(directives, LAMBDA e : e.Reason # "")
             reasons == [i \in DOMAIN withReason |-> withReason[i].Reason]
         IN  IF Len(reasons) > 0
             THEN [kind |-> "reasons", n |-> Len(directives), reasons |-> reasons]
             ELSE [kind |-> "review", n |-> Len(directives), reasons |-> <<>>]

\* AnalyzeDirectives(projectDir, windsurfDir); order is the order in which
\* the range loop visits the rules of the map
AnalyzeDirectives(fsv, dir, windsurfDir, order) ==
    LET statePath == Join(dir, windsurfDir \o <<"orchestrator", "session_state.yaml">>)
    IN  IF ~CanRead(fsv, statePath) THEN [patterns |-> <<>>, err |-> TRUE]
        ELSE LET log == DirectiveLog(fsv[statePath].data)
                 ruleOf(e) == IF e.RuleOverridden = "" THEN "unknown" ELSE e.RuleOverridden
                 ruleCount(rule) == SelectSeq(log, LAMBDA e : ruleOf(e) = rule)
                 kept == SelectSeq(order, LAMBDA rule : ~(Len(ruleCount(rule)) < 2))
             IN  [patterns |-> [i \in DOMAIN kept |->
                                  [Rule |-> kept[i], Count |-> Len(ruleCount(kept[i])),
                                   Directives |-> ruleCount(kept[i]),
                                   Proposal |-> generateProposal(kept[i], ruleCount(kept[i]))]],
                  err |-> FALSE]

MaxLog == 3

\* the entries an agent logs
DirectiveEntries ==
    {[RuleOverridden |-> "escalation", Reason |-> ""],
     [RuleOverridden |-> "", Reason |-> ""],
     [RuleOverridden |-> "", Reason |-> "why"]}

\* the orders a range loop over the rules of the model can take
RuleOrders == {<<"escalation", "unknown">>, <<"unknown", "escalation">>}

\* cfg.Paths.Windsurf or its default, as cmdEvolve and cmdDoctor resolve it
WindsurfDirOf(c) == IF c.Windsurf = <<>> THEN <<".windsurf">> ELSE c.Windsurf

\* the session states of the project: the one evolve reads and those of the
\* active targets
StatePaths ==
    {Join(projectDir, WindsurfDirOf(cfg) \o <<"orchestrator", "session_state.yaml">>)}
    \cup {Join(ResolveOrchestrDir(t, projectDir), <<"session_state.yaml">>) :
             t \in {u \in Elems(resolveTargets(cfg)) : u.OrchestrDir # <<>>}}

\* an agent logs a @directive override to a session state
LogDirective ==
    \E p \in StatePaths, e \in DirectiveEntries :
        LET old == IF p \in DOMAIN fs THEN fs[p].data ELSE [log |-> <<>>]
            new == [x \in DOMAIN old \cup {"log"} |->
                       IF x = "log" THEN Append(DirectiveLog(old), e) ELSE old[x]]
        IN  /\ edits < MaxLog
            /\ p \in DOMAIN fs => fs[p].readable
            /\ fs' = PutFile(fs, p, new, TRUE)
            /\ edits' = edits + 1
            /\ ret' = NoRet
            /\ UNCHANGED <<projectDir, cfg, dirs, fresh>>

\* aiops evolve
CmdEvolve ==
    \E order \in RuleOrders :
    \E r \in {AnalyzeDirectives(fs, projectDir, WindsurfDirOf(cfg), order)} :
        LET reportPath == Join(projectDir, WindsurfDirOf(cfg) \o <<"orchestrator", "evolution_report.md">>)
        IN  /\ fs' = IF Len(r.patterns) > 0
                     THEN PutFile(fs, reportPath, [report |-> r.patterns], TRUE)
                     ELSE fs
            /\ ret' = [op |-> "evolve", err |-> r.err, patterns |-> r.patterns]
            /\ UNCHANGED <<projectDir, cfg, dirs, fresh, edits>>

InitEvolve ==
    /\ projectDir = <<"srv", "app">>
    /\ \E ts \in {<<"windsurf">>, <<"cursor">>}, w \in {<<>>, <<".ws">>} :
          cfg = [Targets |-> ts, Windsurf |-> w, Multiagency |-> <<>>,
                 Memories |-> <<>>, Detected |-> "v1"]
    /\ fs = EmptyFS
    /\ dirs = {}
    /\ ret = NoRet
    /\ fresh = FALSE
    /\ edits = 0

NextEvolve ==
    \/ RenderAllStep
    \/ LogDirective
    \/ CmdEvolve

SpecEvolve == InitEvolve /\ [][NextEvolve]_vars

\* the log of the session state evolve reads
EvolveLog ==
    LET p == Join(projectDir, WindsurfDirOf(cfg) \o <<"orchestrator", "session_state.yaml">>)
    IN  IF p \in DOMAIN fs THEN DirectiveLog(fs[p].data) ELSE <<>>

\* how often the log holds an override of the rule
Overrides(log, rule) ==
    Cardinality({i \in DOMAIN log :
                    (IF log[i].RuleOverridden = "" THEN "unknown" ELSE log[i].RuleOverridden) = rule})

\* C28: evolve proposes a change of a rule only when the directive_log holds
\* 3 or more overrides of that rule.
C28_ThresholdThree ==
    ret.op = "evolve" =>
        \A i \in DOMAIN ret.patterns : Overrides(EvolveLog, ret.patterns[i].Rule) >= 3

\* C30: an evolve that follows a successful RenderAll finds no patterns.
C30_RenderClearsLog ==
    [][(ret.op = "RenderAll" /\ ~ret.err /\ ret'.op = "evolve") => ret'.patterns = <<>>]_vars


-----------------------------------------------------------------------------
(* Target detection around a render                                        *)

\* What init and sync do with the targets: they are detected, their names
\* are stored in the configuration, and RenderAll renders for them.  The
\* detected list is kept beside the result for the properties.
DetectAndRender ==
    \E failAt \in FailPoints :
    \E targets \in {Detect(fs, dirs, projectDir)} :
    \E c \in {[cfg EXCEPT !.Targets = NamesOf(targets)]} :
    \E r \in {RenderAll(fs, projectDir, c, failAt)} :
        /\ fs' = r.fs
        /\ cfg' = c
        /\ ret' = [NoRet EXCEPT !.op = "RenderAll", !.err = r.err, !.paths = r.paths,
                                !.targets = targets, !.failAt = failAt]
        /\ UNCHANGED <<projectDir, dirs, fresh, edits>>

InitStable ==
    /\ projectDir \in {<<"srv", "app">>, Home}
    /\ cfg = [NoConfig EXCEPT !.Version = "1"]
    /\ fs = EmptyFS
    /\ dirs \in SUBSET MarkerDirs(projectDir)
    /\ ret = NoRet
    /\ fresh = FALSE
    /\ edits = 0

NextStable ==
    \/ DetectAndRender
    \/ DetectStep

SpecStable == InitStable /\ [][NextStable]_vars

\* C29: a Detect that follows a successful render for the detected targets
\* returns the list the render was for, in the same order.
C29_DetectStable ==
    [][(ret.op = "RenderAll" /\ ~ret.err /\ ret'.op = "Detect") => ret'.targets = ret.targets]_vars

\* a Detect after a render for the fallback defaults: no marker directory was
\* made by hand, and the files of all three defaults are written
C29_Witness ==
    /\ ret.op = "Detect"
    /\ dirs = {}
    /\ cfg.Targets = <<"windsurf", "cursor", "copilot">>
    /\ Join(projectDir, Copilot.RepoRulesPath) \in DOMAIN fs
    /\ ret.targets = <<Windsurf, Cursor, Copilot>>

====
